---- MODULE Spec2Model ----
(***************************************************************************)
(* A model of tle/util/db/user_db_conn.py: the UserDbConn access layer of  *)
(* the TLE bot over one psycopg2 connection to a PostgreSQL database.      *)
(*                                                                         *)
(* The variables are the COMMITTED contents of the tables, the state of    *)
(* the connection's transaction, and the outcome of the last call.         *)
(* psycopg2 opens a transaction with the first statement and keeps it open *)
(* until commit() or rollback(); a statement the server rejects leaves the *)
(* transaction aborted, and every later statement on the connection is     *)
(* rejected too until rollback() runs.  `with self.conn:` commits on       *)
(* normal exit and rolls back when the block raises.                       *)
(***************************************************************************)
EXTENDS Integers, FiniteSets, Sequences, TLC

VARIABLES
    duel,            \* table duel: a set of rows
    duel_seq,        \* last value of the serial sequence of duel.id
    duelist,         \* table duelist: a set of rows [user_id, rating]
    rated_vcs,       \* table rated_vcs: a set of rows
    vc_seq,          \* last value of the serial sequence of rated_vcs.id
    rated_vc_users,  \* table rated_vc_users: a set of rows [vc_id, user_id, rating]
    user_handle,     \* table user_handle: rows [user_id, guild_id, handle, active]
    challenge,       \* table challenge: rows [id, user_id, issue_time, finish_time, status, ...]
    challenge_seq,   \* last value of the serial sequence of challenge.id
    user_challenge,  \* table user_challenge: one row of gitgud state per user
    starboard,       \* table starboard: rows [guild_id, channel_id]
    rankup,          \* table rankup: rows [guild_id, channel_id]
    rated_vc_settings, \* table rated_vc_settings: rows [guild_id, channel_id]
    reminder,        \* table reminder: rows [guild_id, channel_id, role_id, before]
    issuing,         \* the duel issuance requests in progress in the command layer
    txn,             \* the connection's transaction: "idle" or "aborted"
    ret              \* the last call: [op, args, kind, val]

vars == <<duel, duel_seq, duelist, rated_vcs, vc_seq, rated_vc_users, user_handle,
          challenge, challenge_seq, user_challenge, starboard, rankup,
          rated_vc_settings, reminder, issuing, txn, ret>>

duelVars == <<duel, duel_seq, duelist>>
vcVars == <<rated_vcs, vc_seq, rated_vc_users>>
handleVars == <<user_handle>>
gitgudVars == <<challenge, challenge_seq, user_challenge>>
settingsVars == <<starboard, rankup, rated_vc_settings, reminder>>
callerVars == <<issuing>>
otherVars == <<handleVars, gitgudVars, settingsVars, callerVars>>

(***************************************************************************)
(* Enumerations of the source.                                             *)
(***************************************************************************)
PENDING == 0
DECLINED == 1
WITHDRAWN == 2
EXPIRED == 3
ONGOING == 4
COMPLETE == 5
INVALID == 6

DRAW == 0
CHALLENGER == 1
CHALLENGEE == 2

UNOFFICIAL == 0
OFFICIAL == 1

GOTGUD == 0
GITGUD == 1
NOGUD == 2
FORCED_NOGUD == 3

VC_ONGOING == 0
VC_FINISHED == 1

_DEFAULT_VC_RATING == 1500
DUELIST_INITIAL_RATING == 1500
NoUser == -1

DuelStatuses == {PENDING, DECLINED, WITHDRAWN, EXPIRED, ONGOING, COMPLETE, INVALID}
Winners == {DRAW, CHALLENGER, CHALLENGEE}
DuelTypes == {UNOFFICIAL, OFFICIAL}

(***************************************************************************)
(* SQL NULL / Python None in a nullable column is the empty sequence, a    *)
(* value v is <<v>>.                                                       *)
(***************************************************************************)
NULL == << >>
Some(v) == <<v>>

(***************************************************************************)
(* Bounds and input domains.                                               *)
(***************************************************************************)
MaxDuels == 2        \* rows of table duel
MaxVCs == 2          \* rows of table rated_vcs
MaxChallenges == 3   \* values drawn from the sequence of challenge.id

Users == {1, 2, 3}                 \* Discord user ids
CheckedChallenges == {<<1, 2>>, <<2, 3>>, <<3, 3>>}
Challenges == {<<1, 2>>, <<2, 3>>}   \* <<challenger, challengee>>
CancelStatuses == {DECLINED, WITHDRAWN, EXPIRED}
IssueTimes == {10}
StartTimes == {20}
FinishTimes == {30}
Problems == {"A"}
Deltas == {0, 5}
DuelIdArgs == 1 .. (MaxDuels + 1)
FailPoints == 0 .. 3               \* 0: no statement fails; k: the k-th raises
LifecycleFailPoints == {0, 2, 3}

(***************************************************************************)
(* The outcome of a call: the method, the arguments it was given (those    *)
(* the stored rows do not show), and what came back: a value (kind         *)
(* "value", in val), None (kind "none") or an exception (kind "error",     *)
(* which carries no arguments).                                            *)
(***************************************************************************)
Value(op, args, v) == [op |-> op, args |-> args, kind |-> "value", val |-> v]
None(op, args) == [op |-> op, args |-> args, kind |-> "none", val |-> 0]
Error(op) == [op |-> op, args |-> << >>, kind |-> "error", val |-> 0]
\* A list came back (kind "list"), held in val as the set of its members.
Listing(op, args, s) == [op |-> op, args |-> args, kind |-> "list", val |-> s]

MaxOf(S) == CHOOSE m \in S : \A x \in S : x <= m

(***************************************************************************)
(* create_tables: the tables are created IF NOT EXISTS, so the rows of an  *)
(* earlier deployment are kept, and each serial sequence is set to         *)
(* MAX(id) + 1 (setval of NULL, on an empty table, leaves the sequence     *)
(* where it is: a fresh one has produced no value yet).                    *)
(***************************************************************************)
SetvalAfterCreate(tbl) ==
    IF tbl = {} THEN 0 ELSE MaxOf({r.id : r \in tbl}) + 1

DuelRow(id, challenger, challengee, issue_time, prob, dtype) ==
    [id |-> id, challenger |-> challenger, challengee |-> challengee,
     issue_time |-> issue_time, start_time |-> NULL, finish_time |-> NULL,
     problem |-> prob, status |-> PENDING, winner |-> NULL, type |-> dtype]

\* The rows an earlier deployment left in table duel: here none, or one duel
\* that had been started and is still ONGOING.
LegacyDuelTables ==
    {{}} \cup
    {{[DuelRow(1, 1, 2, 10, "A", t) EXCEPT !.status = ONGOING, !.start_time = Some(20)]} :
        t \in DuelTypes}

(***************************************************************************)
(* check_duel_challenge: SELECT id FROM duel WHERE (challengee = u OR      *)
(* challenger = u) AND (status = ONGOING OR status = PENDING); fetchone()  *)
(* gives one of the matching rows, or None.                                *)
(***************************************************************************)
\* A slip: the challengee's side of the WHERE clause forgotten.
check_duel_challenge_challenger_only(tbl, userid) ==
    LET rows == {d \in tbl : d.challenger = userid
                             /\ (d.status = ONGOING \/ d.status = PENDING)}
    IN  IF rows = {} THEN {NULL} ELSE {Some(d.id) : d \in rows}

\* A slip: the ONGOING duels forgotten.
check_duel_challenge_pending_only(tbl, userid) ==
    LET rows == {d \in tbl : (d.challengee = userid \/ d.challenger = userid)
                             /\ d.status = PENDING}
    IN  IF rows = {} THEN {NULL} ELSE {Some(d.id) : d \in rows}

check_duel_challenge(tbl, userid) ==
    LET rows == {d \in tbl : (d.challengee = userid \/ d.challenger = userid)
                             /\ (d.status = ONGOING \/ d.status = PENDING)}
    IN  IF rows = {} THEN {NULL} ELSE {Some(d.id) : d \in rows}

(***************************************************************************)
(* A call on a connection whose transaction is aborted: cur.execute raises *)
(* InFailedSqlTransaction and nothing is written.                          *)
(***************************************************************************)
RaiseKeepingTxn(op) ==
    /\ ret' = Error(op)
    /\ txn' = "aborted"
    /\ UNCHANGED <<duelVars, vcVars, otherVars>>

\* The same inside `with self.conn:`, whose exit rolls the transaction back.
RaiseInWith(op) ==
    /\ ret' = Error(op)
    /\ txn' = "idle"
    /\ UNCHANGED <<duelVars, vcVars, otherVars>>

(***************************************************************************)
(* create_duel: INSERT of a PENDING row; the id comes from the sequence.   *)
(* The method returns cur.lastrowid, which psycopg2 sets to the OID of the *)
(* inserted row: 0 or None for a table without OIDs, never duel.id.        *)
(***************************************************************************)
create_duel(challenger, challengee, issue_time, prob, dtype) ==
    /\ Cardinality(duel) < MaxDuels
    /\ IF txn = "aborted" THEN RaiseKeepingTxn("create_duel")
       ELSE /\ duel' = duel \cup
                  {DuelRow(duel_seq + 1, challenger, challengee, issue_time, prob, dtype)}
            /\ duel_seq' = duel_seq + 1
            /\ ret' \in {Value("create_duel", << >>, 0), None("create_duel", << >>)}
            /\ txn' = "idle"
            /\ UNCHANGED <<duelist, vcVars, otherVars>>

(***************************************************************************)
(* cancel_duel: UPDATE duel SET status = %s WHERE id = %s AND status =     *)
(* PENDING; rollback and 0 unless exactly one row matched.                 *)
(***************************************************************************)
\* A slip: the guard on the current status forgotten.
cancel_duel_where_any_status(tbl, duelid) ==
    {d \in tbl : d.id = duelid}

\* A slip: the wrong status constant in the guard.
cancel_duel_where_complete(tbl, duelid) ==
    {d \in tbl : d.id = duelid /\ d.status = COMPLETE}

cancel_duel_where(tbl, duelid) ==
    {d \in tbl : d.id = duelid /\ d.status = PENDING}

cancel_duel(duelid, status) ==
    LET matched == cancel_duel_where(duel, duelid)
        rc == Cardinality(matched)
    IN  IF txn = "aborted" THEN RaiseKeepingTxn("cancel_duel")
        ELSE /\ txn' = "idle"
             /\ UNCHANGED <<duel_seq, duelist, vcVars, otherVars>>
             /\ IF rc # 1
                THEN /\ duel' = duel
                     /\ ret' = Value("cancel_duel", <<duelid>>, 0)
                ELSE /\ duel' = {IF d \in matched THEN [d EXCEPT !.status = status] ELSE d :
                                    d \in duel}
                     /\ ret' = Value("cancel_duel", <<duelid>>, rc)

(***************************************************************************)
(* invalidate_duel: UPDATE duel SET status = INVALID WHERE id = %s AND     *)
(* status = ONGOING.                                                       *)
(***************************************************************************)
\* A slip: the guard on the current status forgotten.
invalidate_duel_where_any_status(tbl, duelid) ==
    {d \in tbl : d.id = duelid}

invalidate_duel_where(tbl, duelid) ==
    {d \in tbl : d.id = duelid /\ d.status = ONGOING}

invalidate_duel(duelid) ==
    LET matched == invalidate_duel_where(duel, duelid)
        rc == Cardinality(matched)
    IN  IF txn = "aborted" THEN RaiseKeepingTxn("invalidate_duel")
        ELSE /\ txn' = "idle"
             /\ UNCHANGED <<duel_seq, duelist, vcVars, otherVars>>
             /\ IF rc # 1
                THEN /\ duel' = duel
                     /\ ret' = Value("invalidate_duel", <<duelid>>, 0)
                ELSE /\ duel' = {IF d \in matched THEN [d EXCEPT !.status = INVALID] ELSE d :
                                    d \in duel}
                     /\ ret' = Value("invalidate_duel", <<duelid>>, rc)

(***************************************************************************)
(* start_duel: the query text is                                           *)
(*     UPDATE duel SET start_time = %s, status = ONGOING;                  *)
(*     WHERE id = %s AND status = PENDING;                                 *)
(* two statements in one string.  The server parses the whole string       *)
(* before it runs any of it, and "WHERE ..." is no statement: cur.execute  *)
(* raises SyntaxError whatever the table holds, no row is updated, the     *)
(* lines after it are not reached, and the transaction is left aborted.    *)
(***************************************************************************)
start_duel(duelid, start_time) ==
    /\ ret' = Error("start_duel")
    /\ txn' = "aborted"
    /\ UNCHANGED <<duelVars, vcVars, otherVars>>

(***************************************************************************)
(* update_duel_rating: UPDATE duelist SET rating = rating + %s WHERE       *)
(* user_id = %s, followed by a commit of the connection's transaction.     *)
(***************************************************************************)
\* A slip: the WHERE clause forgotten, every duelist updated.
update_duel_rating_no_where(tbl, userid, delta) ==
    {[r EXCEPT !.rating = @ + delta] : r \in tbl}

\* A slip: an upsert, giving a user without a row one at 1500 plus delta.
update_duel_rating_upsert(tbl, userid, delta) ==
    IF \E r \in tbl : r.user_id = userid
    THEN {IF r.user_id = userid THEN [r EXCEPT !.rating = @ + delta] ELSE r : r \in tbl}
    ELSE tbl \cup {[user_id |-> userid, rating |-> DUELIST_INITIAL_RATING + delta]}

update_duel_rating(tbl, userid, delta) ==
    {IF r.user_id = userid THEN [r EXCEPT !.rating = @ + delta] ELSE r : r \in tbl}

(***************************************************************************)
(* complete_duel: the guarded UPDATE to COMPLETE; rollback and 0 unless    *)
(* one row matched; for an OFFICIAL duel the two calls of                  *)
(* update_duel_rating, EACH OF WHICH COMMITS; then the final commit.       *)
(* fail names the statement that raises, if it is reached: 1 the UPDATE of *)
(* duel, 2 the winner's UPDATE of duelist, 3 the loser's.  What was        *)
(* executed since the last commit is lost when a statement raises.         *)
(***************************************************************************)
\* A slip: the guard on the current status forgotten.
complete_duel_where_any_status(tbl, duelid) ==
    {d \in tbl : d.id = duelid}

\* A slip: the id forgotten, every ONGOING duel matched.
complete_duel_where_any_id(tbl, duelid) ==
    {d \in tbl : d.status = ONGOING}

\* A slip: the test of dtype forgotten, every completion treated as OFFICIAL.
complete_duel_ignoring_dtype(duelid, winner, finish_time, winner_id, loser_id, delta, dtype, fail) ==
    LET matched == {d \in duel : d.id = duelid /\ d.status = ONGOING}
        flipped == {IF d \in matched
                    THEN [d EXCEPT !.status = COMPLETE,
                                   !.finish_time = Some(finish_time),
                                   !.winner = Some(winner)]
                    ELSE d : d \in duel}
        args == <<duelid, winner_id, loser_id, delta, dtype>>
    IN  IF txn = "aborted" \/ fail # 0 THEN RaiseKeepingTxn("complete_duel")
        ELSE /\ UNCHANGED <<duel_seq, vcVars, otherVars>>
             /\ txn' = "idle"
             /\ IF Cardinality(matched) # 1
                THEN /\ UNCHANGED <<duel, duelist>>
                     /\ ret' = Value("complete_duel", args, 0)
                ELSE /\ duel' = flipped
                     /\ duelist' = {IF r.user_id = winner_id /\ r.user_id = loser_id THEN r
                                    ELSE IF r.user_id = winner_id
                                    THEN [r EXCEPT !.rating = @ + delta]
                                    ELSE IF r.user_id = loser_id
                                    THEN [r EXCEPT !.rating = @ - delta]
                                    ELSE r : r \in duelist}
                     /\ ret' = Value("complete_duel", args, 1)

complete_duel_where(tbl, duelid) ==
    {d \in tbl : d.id = duelid /\ d.status = ONGOING}

complete_duel(duelid, winner, finish_time, winner_id, loser_id, delta, dtype, fail) ==
    LET matched == complete_duel_where(duel, duelid)
        rc == Cardinality(matched)
        flipped == {IF d \in matched
                    THEN [d EXCEPT !.status = COMPLETE,
                                   !.finish_time = Some(finish_time),
                                   !.winner = Some(winner)]
                    ELSE d : d \in duel}
        afterWinner == update_duel_rating(duelist, winner_id, delta)
        afterLoser == update_duel_rating(afterWinner, loser_id, 0 - delta)
        args == <<duelid, winner_id, loser_id, delta, dtype>>
    IN  IF txn = "aborted" \/ fail = 1 THEN RaiseKeepingTxn("complete_duel")
        ELSE /\ UNCHANGED <<duel_seq, vcVars, otherVars>>
             /\ IF rc # 1
                THEN /\ UNCHANGED <<duel, duelist>>
                     /\ txn' = "idle"
                     /\ ret' = Value("complete_duel", args, 0)
                ELSE IF dtype = OFFICIAL /\ fail = 2
                THEN /\ UNCHANGED <<duel, duelist>>
                     /\ txn' = "aborted"
                     /\ ret' = Error("complete_duel")
                ELSE IF dtype = OFFICIAL /\ fail = 3
                THEN /\ duel' = flipped
                     /\ duelist' = afterWinner
                     /\ txn' = "aborted"
                     /\ ret' = Error("complete_duel")
                ELSE /\ duel' = flipped
                     /\ duelist' = IF dtype = OFFICIAL THEN afterLoser ELSE duelist
                     /\ txn' = "idle"
                     /\ ret' = Value("complete_duel", args, 1)

\* The insert with ON CONFLICT DO UPDATE in place of DO NOTHING: a registered
\* user's rating is reset and the row counts as affected.
register_duelist_upsert(userid) ==
    IF txn = "aborted" THEN RaiseInWith("register_duelist")
    ELSE /\ duelist' = {r \in duelist : r.user_id # userid} \cup
                            {[user_id |-> userid, rating |-> DUELIST_INITIAL_RATING]}
         /\ ret' = Value("register_duelist", <<userid>>, 1)
         /\ txn' = "idle"
         /\ UNCHANGED <<duel, duel_seq, vcVars, otherVars>>

(***************************************************************************)
(* register_duelist: INSERT INTO duelist VALUES (%s, 1500) ON CONFLICT DO  *)
(* NOTHING, inside `with self.conn:`; returns the row count.               *)
(***************************************************************************)
register_duelist(userid) ==
    LET present == \E r \in duelist : r.user_id = userid
    IN  IF txn = "aborted" THEN RaiseInWith("register_duelist")
        ELSE /\ duelist' = IF present THEN duelist
                           ELSE duelist \cup
                                {[user_id |-> userid, rating |-> DUELIST_INITIAL_RATING]}
             /\ ret' = Value("register_duelist", <<userid>>, IF present THEN 0 ELSE 1)
             /\ txn' = "idle"
             /\ UNCHANGED <<duel, duel_seq, vcVars, otherVars>>

(***************************************************************************)
(* rollback: self.conn.rollback() ends an aborted transaction.             *)
(***************************************************************************)
rollback ==
    /\ txn' = "idle"
    /\ ret' = None("rollback", << >>)
    /\ UNCHANGED <<duelVars, vcVars, otherVars>>

\* The tables of the other subsystems, empty.
NoHandles == user_handle = {}
NoGitgud == challenge = {} /\ challenge_seq = 0 /\ user_challenge = {}
NoSettings == starboard = {} /\ rankup = {} /\ rated_vc_settings = {} /\ reminder = {}
\* No issuance request is in progress.
NoIssuing == issuing = << >>

(***************************************************************************)
(* Spec: the duel life cycle, on a database that may hold a legacy duel.   *)
(* No duelist is registered, and complete_duel is called with the default  *)
(* winner_id, loser_id and delta of its signature.                         *)
(***************************************************************************)
Init ==
    /\ duel \in LegacyDuelTables
    /\ duel_seq = SetvalAfterCreate(duel)
    /\ duelist = {}
    /\ rated_vcs = {}
    /\ vc_seq = 0
    /\ rated_vc_users = {}
    /\ NoHandles /\ NoGitgud /\ NoSettings /\ NoIssuing
    /\ txn = "idle"
    /\ ret = None("__init__", << >>)

CreateDuel ==
    \E ch \in Challenges, t \in IssueTimes, p \in Problems, ty \in DuelTypes :
        create_duel(ch[1], ch[2], t, p, ty)

CancelDuel == \E d \in DuelIdArgs, s \in CancelStatuses : cancel_duel(d, s)

InvalidateDuel == \E d \in DuelIdArgs : invalidate_duel(d)

StartDuel == \E d \in DuelIdArgs, t \in StartTimes : start_duel(d, t)

CompleteDuel ==
    \E d \in DuelIdArgs, w \in Winners, ft \in FinishTimes, ty \in DuelTypes,
       f \in LifecycleFailPoints :
        complete_duel(d, w, ft, NoUser, NoUser, 0, ty, f)

Next ==
    \/ CreateDuel
    \/ CancelDuel
    \/ StartDuel
    \/ InvalidateDuel
    \/ CompleteDuel
    \/ rollback

Spec == Init /\ [][Next]_vars

(***************************************************************************)
(* SpecLedger: the rating ledger.  One legacy duel is ONGOING; users       *)
(* register as duelists and the duel is completed or invalidated with any  *)
(* winner_id, loser_id, delta and dtype.                                   *)
(***************************************************************************)
LedgerDuelIds == {1, 2}
LedgerWinners == {CHALLENGER}

InitLedger ==
    /\ duel \in LegacyDuelTables \ {{}}
    /\ duel_seq = SetvalAfterCreate(duel)
    /\ duelist = {}
    /\ rated_vcs = {}
    /\ vc_seq = 0
    /\ rated_vc_users = {}
    /\ NoHandles /\ NoGitgud /\ NoSettings /\ NoIssuing
    /\ txn = "idle"
    /\ ret = None("__init__", << >>)

RegisterDuelist == \E u \in Users : register_duelist(u)

LedgerInvalidateDuel == \E d \in LedgerDuelIds : invalidate_duel(d)

LedgerCompleteDuel ==
    \E d \in LedgerDuelIds, w \in LedgerWinners, ft \in FinishTimes, wid \in Users,
       lid \in Users, delta \in Deltas, ty \in DuelTypes, f \in FailPoints :
        complete_duel(d, w, ft, wid, lid, delta, ty, f)

NextLedger ==
    \/ RegisterDuelist
    \/ LedgerInvalidateDuel
    \/ LedgerCompleteDuel
    \/ rollback

SpecLedger == InitLedger /\ [][NextLedger]_vars

(***************************************************************************)
(* SpecChecked: duels are issued the way the command layer issues them:    *)
(* check_duel_challenge for the challenger and for the challengee, and     *)
(* create_duel only when both return no row, with nothing in between.      *)
(* A rejected issuance returns what check_duel_challenge found.            *)
(***************************************************************************)
issue_duel(challenger, challengee, issue_time, prob, dtype) ==
    IF txn = "aborted" THEN RaiseKeepingTxn("check_duel_challenge")
    ELSE \E r1 \in check_duel_challenge(duel, challenger),
            r2 \in check_duel_challenge(duel, challengee) :
            IF r1 = NULL /\ r2 = NULL
            THEN create_duel(challenger, challengee, issue_time, prob, dtype)
            ELSE /\ ret' = IF r1 # NULL
                           THEN Value("check_duel_challenge", <<challenger>>, r1[1])
                           ELSE Value("check_duel_challenge", <<challengee>>, r2[1])
                 /\ txn' = "idle"
                 /\ UNCHANGED <<duelVars, vcVars, otherVars>>

IssueDuel ==
    \E ch \in CheckedChallenges, t \in IssueTimes, p \in Problems :
        issue_duel(ch[1], ch[2], t, p, OFFICIAL)

NextChecked ==
    \/ IssueDuel
    \/ CancelDuel
    \/ StartDuel
    \/ InvalidateDuel
    \/ CompleteDuel
    \/ rollback

SpecChecked == Init /\ [][NextChecked]_vars

(***************************************************************************)
(* Rated virtual contests.                                                 *)
(***************************************************************************)
VcUsers == {1, 2}
VcRatings == {1450, 1600}
VcIdArgs == 1 .. (MaxVCs + 1)
Rosters == {<< >>, <<1>>, <<1, 2>>, <<1, 1>>}
ContestIds == {1000}
Guilds == {7}

\* CAST(%s AS TEXT): the columns user_id and guild_id hold text, whatever the
\* caller passed.
CastText(x) == [text |-> x]

VcRow(id, contest_id, start_time, finish_time, guild_id) ==
    [id |-> id, contest_id |-> contest_id, start_time |-> Some(start_time),
     finish_time |-> Some(finish_time), status |-> VC_ONGOING,
     guild_id |-> CastText(guild_id)]

VcUserRow(vc_id, user_id, rating) ==
    [vc_id |-> vc_id, user_id |-> CastText(user_id), rating |-> rating]

\* What an earlier deployment left: nothing, or one contest with its roster,
\* ratings not yet computed.
LegacyVcStores ==
    {<<{}, {}>>,
     <<{VcRow(1, 1000, 10, 20, 7)}, {VcUserRow(1, 1, NULL), VcUserRow(1, 2, NULL)}>>}

(***************************************************************************)
(* create_rated_vc: inside `with self.conn:` the INSERT of the rated_vcs   *)
(* row, id = cur.lastrowid (0 or None with psycopg2, see create_duel), and *)
(* one INSERT into rated_vc_users per listed user with that id as vc_id.   *)
(* The primary key (vc_id, user_id) rejects a NULL vc_id and a repeated    *)
(* pair, fk_vc rejects a vc_id that is no rated_vcs.id; a rejected INSERT  *)
(* rolls the whole block back.  A sequence value that was drawn stays      *)
(* drawn.                                                                  *)
(***************************************************************************)
RECURSIVE InsertRoster(_, _, _, _)
InsertRoster(vcs, tbl, lastrowid, user_ids) ==
    IF user_ids = << >> THEN <<TRUE, tbl>>
    ELSE IF \/ lastrowid = NULL
            \/ ~ \E v \in vcs : v.id = lastrowid[1]
            \/ \E r \in tbl : r.vc_id = lastrowid[1] /\ r.user_id = CastText(Head(user_ids))
         THEN <<FALSE, tbl>>
         ELSE InsertRoster(vcs, tbl \cup {VcUserRow(lastrowid[1], Head(user_ids), NULL)},
                           lastrowid, Tail(user_ids))

create_rated_vc(contest_id, start_time, finish_time, guild_id, user_ids) ==
    /\ Cardinality(rated_vcs) < MaxVCs
    /\ vc_seq < MaxVCs + 2
    /\ IF txn = "aborted" THEN RaiseInWith("create_rated_vc")
       ELSE \E lastrowid \in {Some(0), NULL} :
            LET vcs == rated_vcs \cup
                       {VcRow(vc_seq + 1, contest_id, start_time, finish_time, guild_id)}
                res == InsertRoster(vcs, rated_vc_users, lastrowid, user_ids)
            IN  /\ vc_seq' = vc_seq + 1
                /\ txn' = "idle"
                /\ UNCHANGED <<duelVars, otherVars>>
                /\ IF res[1]
                   THEN /\ rated_vcs' = vcs
                        /\ rated_vc_users' = res[2]
                        /\ ret' = IF lastrowid = NULL THEN None("create_rated_vc", << >>)
                                  ELSE Value("create_rated_vc", << >>, lastrowid[1])
                   ELSE /\ UNCHANGED <<rated_vcs, rated_vc_users>>
                        /\ ret' = Error("create_rated_vc")

(***************************************************************************)
(* finish_rated_vc: UPDATE rated_vcs SET status = FINISHED WHERE id = %s,  *)
(* inside `with self.conn:`; returns None.                                 *)
(***************************************************************************)
\* A slip: finishing treated as a guarded transition that fails on a contest
\* that is not ONGOING.
finish_rated_vc_strict(vc_id) ==
    IF txn = "aborted" \/ \E v \in rated_vcs : v.id = vc_id /\ v.status # VC_ONGOING
    THEN RaiseInWith("finish_rated_vc")
    ELSE /\ rated_vcs' = {IF v.id = vc_id THEN [v EXCEPT !.status = VC_FINISHED] ELSE v :
                             v \in rated_vcs}
         /\ ret' = None("finish_rated_vc", <<vc_id>>)
         /\ txn' = "idle"
         /\ UNCHANGED <<duelVars, vc_seq, rated_vc_users, otherVars>>

finish_rated_vc(vc_id) ==
    IF txn = "aborted" THEN RaiseInWith("finish_rated_vc")
    ELSE /\ rated_vcs' = {IF v.id = vc_id THEN [v EXCEPT !.status = VC_FINISHED] ELSE v :
                             v \in rated_vcs}
         /\ ret' = None("finish_rated_vc", <<vc_id>>)
         /\ txn' = "idle"
         /\ UNCHANGED <<duelVars, vc_seq, rated_vc_users, otherVars>>

(***************************************************************************)
(* update_vc_rating: INSERT INTO rated_vc_users (vc_id, user_id, rating)   *)
(* ... ON CONFLICT (vc_id, user_id) DO UPDATE SET rating = EXCLUDED.rating *)
(* inside `with self.conn:`; returns None.  fk_vc rejects the INSERT when  *)
(* vc_id is no rated_vcs.id.                                               *)
(***************************************************************************)
\* A slip: the rating appended as a new entry instead of overwriting.
update_vc_rating_append(tbl, vc_id, user_id, rating) ==
    tbl \cup {VcUserRow(vc_id, user_id, Some(rating))}

update_vc_rating_upsert(tbl, vc_id, user_id, rating) ==
    {r \in tbl : ~ (r.vc_id = vc_id /\ r.user_id = CastText(user_id))}
        \cup {VcUserRow(vc_id, user_id, Some(rating))}

update_vc_rating(vc_id, user_id, rating) ==
    IF txn = "aborted" \/ ~ \E v \in rated_vcs : v.id = vc_id
    THEN RaiseInWith("update_vc_rating")
    ELSE /\ rated_vc_users' = update_vc_rating_upsert(rated_vc_users, vc_id, user_id, rating)
         /\ ret' = None("update_vc_rating", <<vc_id, user_id, rating>>)
         /\ txn' = "idle"
         /\ UNCHANGED <<duelVars, rated_vcs, vc_seq, otherVars>>

(***************************************************************************)
(* get_vc_rating: the query is                                             *)
(*     SELECT MAX(vc_id) AS latest_vc_id, rating FROM rated_vc_users       *)
(*     WHERE user_id = CAST(%s AS TEXT) AND rating IS NOT NULL;            *)
(* PostgreSQL rejects a bare column beside an aggregate without GROUP BY   *)
(* when it analyses the statement, whatever the table holds: _fetchone     *)
(* raises (GroupingError), outside any `with self.conn:`, so the           *)
(* transaction is left aborted.  The lines after the query are not         *)
(* reached.                                                                *)
(***************************************************************************)
get_vc_rating(user_id, default_if_not_exist) ==
    /\ ret' = Error("get_vc_rating")
    /\ txn' = "aborted"
    /\ UNCHANGED <<duelVars, vcVars, otherVars>>

InitVC ==
    /\ duel = {}
    /\ duel_seq = 0
    /\ duelist = {}
    /\ \E s \in LegacyVcStores : rated_vcs = s[1] /\ rated_vc_users = s[2]
    /\ vc_seq = SetvalAfterCreate(rated_vcs)
    /\ NoHandles /\ NoGitgud /\ NoSettings /\ NoIssuing
    /\ txn = "idle"
    /\ ret = None("__init__", << >>)

CreateRatedVc ==
    \E c \in ContestIds, st \in IssueTimes, ft \in FinishTimes, g \in Guilds,
       us \in Rosters :
        create_rated_vc(c, st, ft, g, us)

FinishRatedVc == \E v \in VcIdArgs : finish_rated_vc(v)

UpdateVcRating ==
    \E v \in VcIdArgs, u \in VcUsers, r \in VcRatings : update_vc_rating(v, u, r)

GetVcRating == \E u \in VcUsers, dflt \in BOOLEAN : get_vc_rating(u, dflt)

NextVC ==
    \/ CreateRatedVc
    \/ FinishRatedVc
    \/ UpdateVcRating
    \/ GetVcRating
    \/ rollback

SpecVC == InitVC /\ [][NextVC]_vars

(***************************************************************************)
(* get_ongoing_rated_vc_ids: SELECT id FROM rated_vcs WHERE status = %s    *)
(* with RatedVC.ONGOING, through _fetchall outside any `with self.conn:`.  *)
(***************************************************************************)
\* A slip: the status filter forgotten.
get_ongoing_rated_vc_ids_where_any_status(tbl) == tbl

get_ongoing_rated_vc_ids_where(tbl) == {v \in tbl : v.status = VC_ONGOING}

get_ongoing_rated_vc_ids ==
    IF txn = "aborted" THEN RaiseKeepingTxn("get_ongoing_rated_vc_ids")
    ELSE /\ ret' = Listing("get_ongoing_rated_vc_ids", << >>,
                           {v.id : v \in get_ongoing_rated_vc_ids_where(rated_vcs)})
         /\ txn' = "idle"
         /\ UNCHANGED <<duelVars, vcVars, otherVars>>

(***************************************************************************)
(* remove_last_ratedvc_participation: SELECT MAX(vc_id) over the user's    *)
(* rows (one row always comes back, vc_id NULL when the user has none),    *)
(* then DELETE ... WHERE user_id = ... AND vc_id = %s inside `with         *)
(* self.conn:` (no row equals NULL); returns cur.rowcount.                 *)
(***************************************************************************)
\* A slip: only rated rows considered for the maximum.
remove_last_max_rated_only(tbl, user_id) ==
    LET mine == {r \in tbl : r.user_id = CastText(user_id) /\ r.rating # NULL}
    IN  IF mine = {} THEN NULL ELSE Some(MaxOf({r.vc_id : r \in mine}))

remove_last_max(tbl, user_id) ==
    LET mine == {r \in tbl : r.user_id = CastText(user_id)}
    IN  IF mine = {} THEN NULL ELSE Some(MaxOf({r.vc_id : r \in mine}))

remove_last_ratedvc_participation(user_id) ==
    IF txn = "aborted" THEN RaiseKeepingTxn("remove_last_ratedvc_participation")
    ELSE LET vc_id == remove_last_max(rated_vc_users, user_id)
             gone == {r \in rated_vc_users :
                         /\ r.user_id = CastText(user_id)
                         /\ vc_id # NULL
                         /\ r.vc_id = vc_id[1]}
         IN  /\ rated_vc_users' = rated_vc_users \ gone
             /\ ret' = Value("remove_last_ratedvc_participation", <<user_id>>,
                             Cardinality(gone))
             /\ txn' = "idle"
             /\ UNCHANGED <<duelVars, rated_vcs, vc_seq, otherVars>>

(***************************************************************************)
(* SpecVcLife: the life of rated contests and of their participation rows, *)
(* on a database that may hold the contests of an earlier deployment.      *)
(***************************************************************************)
LifeRatings == {1600}

LifeVcStores ==
    LegacyVcStores \cup
    {<<{[VcRow(1, 1000, 10, 20, 7) EXCEPT !.status = VC_FINISHED],
        VcRow(2, 1000, 10, 20, 7)},
       {VcUserRow(1, 1, Some(1450)), VcUserRow(1, 2, NULL), VcUserRow(2, 1, NULL)}>>}

InitVcLife ==
    /\ duel = {}
    /\ duel_seq = 0
    /\ duelist = {}
    /\ \E s \in LifeVcStores : rated_vcs = s[1] /\ rated_vc_users = s[2]
    /\ vc_seq = SetvalAfterCreate(rated_vcs)
    /\ NoHandles /\ NoGitgud /\ NoSettings /\ NoIssuing
    /\ txn = "idle"
    /\ ret = None("__init__", << >>)

LifeUpdateVcRating ==
    \E v \in VcIdArgs, u \in VcUsers, r \in LifeRatings : update_vc_rating(v, u, r)

RemoveLastRatedVcParticipation ==
    \E u \in VcUsers : remove_last_ratedvc_participation(u)

GetOngoingRatedVcIds == get_ongoing_rated_vc_ids

NextVcLife ==
    \/ CreateRatedVc
    \/ FinishRatedVc
    \/ LifeUpdateVcRating
    \/ RemoveLastRatedVcParticipation
    \/ GetOngoingRatedVcIds

SpecVcLife == InitVcLife /\ [][NextVcLife]_vars

(***************************************************************************)
(* Handles.  user_handle has the primary key (user_id, guild_id) and the   *)
(* unique index ix_user_handle_guild_handle on (guild_id, handle).         *)
(* user_id and guild_id are stored as text; callers pass integers.         *)
(***************************************************************************)
HandleUsers == {1, 2}
HandleGuilds == {7, 8}
HandleNames == {501, 502}      \* codes standing for two Codeforces handles

\* int(existing[0]): the stored text read back as the integer it spells.
int(t) == t.text

\* An exception of the given class left the call.
Raise(op, exc) == [op |-> op, args |-> << >>, kind |-> exc, val |-> 0]

HandleRow(user_id, guild_id, handle, active) ==
    [user_id |-> CastText(user_id), guild_id |-> CastText(guild_id),
     handle |-> handle, active |-> active]

(***************************************************************************)
(* set_handle: SELECT user_id FROM user_handle WHERE guild_id = ... AND    *)
(* handle = %s; when a row comes back and int(existing[0]) != user_id the  *)
(* method raises UniqueConstraintFailed.  Otherwise, inside `with          *)
(* self.conn:`, INSERT ... VALUES (user, guild, handle, 1) ON CONFLICT     *)
(* (user_id, guild_id) DO UPDATE SET handle, active; returns rowcount.     *)
(* The unique index would reject the INSERT if another user of the guild   *)
(* held the handle.                                                        *)
(***************************************************************************)
\* A slip: the guild forgotten in the WHERE clause of the SELECT.
set_handle_existing_any_guild(tbl, guild_id, handle) ==
    {r \in tbl : r.handle = handle}

set_handle_existing(tbl, guild_id, handle) ==
    {r \in tbl : r.guild_id = CastText(guild_id) /\ r.handle = handle}

set_handle_upsert(tbl, user_id, guild_id, handle) ==
    {r \in tbl : ~ (r.user_id = CastText(user_id) /\ r.guild_id = CastText(guild_id))}
        \cup {HandleRow(user_id, guild_id, handle, 1)}

set_handle(user_id, guild_id, handle) ==
    IF txn = "aborted" THEN RaiseKeepingTxn("set_handle")
    ELSE LET existing == set_handle_existing(user_handle, guild_id, handle)
         IN  /\ txn' = "idle"
             /\ UNCHANGED <<duelVars, vcVars, gitgudVars, settingsVars, callerVars>>
             /\ IF \E r \in existing : int(r.user_id) # user_id
                THEN /\ ret' = Raise("set_handle", "UniqueConstraintFailed")
                     /\ UNCHANGED user_handle
                ELSE IF \E r \in user_handle :
                            /\ r.guild_id = CastText(guild_id)
                            /\ r.handle = handle
                            /\ r.user_id # CastText(user_id)
                THEN /\ ret' = Error("set_handle")
                     /\ UNCHANGED user_handle
                ELSE /\ user_handle' = set_handle_upsert(user_handle, user_id, guild_id, handle)
                     /\ ret' = Value("set_handle", <<user_id, guild_id, handle>>, 1)

(***************************************************************************)
(* set_inactive: UPDATE user_handle SET active = 0 WHERE guild_id = ...    *)
(* AND user_id = ..., by executemany over the given (guild, user) pairs,   *)
(* inside `with self.conn:`.  Called here with a list of one pair, for     *)
(* which cur.rowcount is the number of rows that pair matched.             *)
(***************************************************************************)
set_inactive(guild_id, user_id) ==
    IF txn = "aborted" THEN RaiseInWith("set_inactive")
    ELSE LET hit == {r \in user_handle :
                        r.guild_id = CastText(guild_id) /\ r.user_id = CastText(user_id)}
         IN  /\ user_handle' = (user_handle \ hit) \cup {[r EXCEPT !.active = 0] : r \in hit}
             /\ ret' = Value("set_inactive", <<guild_id, user_id>>, Cardinality(hit))
             /\ txn' = "idle"
             /\ UNCHANGED <<duelVars, vcVars, gitgudVars, settingsVars, callerVars>>

\* remove_handle: DELETE FROM user_handle WHERE user_id = ... AND guild_id = ...
\* inside `with self.conn:`; returns cur.rowcount.
remove_handle(user_id, guild_id) ==
    IF txn = "aborted" THEN RaiseInWith("remove_handle")
    ELSE LET hit == {r \in user_handle :
                        r.user_id = CastText(user_id) /\ r.guild_id = CastText(guild_id)}
         IN  /\ user_handle' = user_handle \ hit
             /\ ret' = Value("remove_handle", <<user_id, guild_id>>, Cardinality(hit))
             /\ txn' = "idle"
             /\ UNCHANGED <<duelVars, vcVars, gitgudVars, settingsVars, callerVars>>

InitHandle ==
    /\ duel = {} /\ duel_seq = 0 /\ duelist = {}
    /\ rated_vcs = {} /\ vc_seq = 0 /\ rated_vc_users = {}
    /\ NoHandles /\ NoGitgud /\ NoSettings /\ NoIssuing
    /\ txn = "idle"
    /\ ret = None("__init__", << >>)

SetHandle ==
    \E u \in HandleUsers, g \in HandleGuilds, h \in HandleNames : set_handle(u, g, h)

SetInactive == \E g \in HandleGuilds, u \in HandleUsers : set_inactive(g, u)

RemoveHandle == \E u \in HandleUsers, g \in HandleGuilds : remove_handle(u, g)

NextHandle == SetHandle \/ SetInactive \/ RemoveHandle

SpecHandle == InitHandle /\ [][NextHandle]_vars

(***************************************************************************)
(* Gitgud challenges.  A challenge row keeps its owner, times, rating      *)
(* delta and status (the problem's name, contest and index are written     *)
(* once and never read by the operations below, so they are left out);     *)
(* user_challenge has one row per user with the active-challenge slot, the *)
(* score and the counters.                                                 *)
(***************************************************************************)
GitgudUsers == {1, 2}
ChallengeIdArgs == 1 .. (MaxChallenges + 1)
RatingDeltas == {100}
ScoreDeltas == {3}
SkipStatuses == {NOGUD, FORCED_NOGUD}

ChallengeRow(id, user_id, issue_time, delta) ==
    [id |-> id, user_id |-> CastText(user_id), issue_time |-> issue_time,
     finish_time |-> NULL, rating_delta |-> delta, status |-> GITGUD]

UserChallengeRow(user_id) ==
    [user_id |-> CastText(user_id), active_challenge_id |-> NULL, issue_time |-> NULL,
     score |-> 0, num_completed |-> 0, num_skipped |-> 0]

(***************************************************************************)
(* new_challenge: query1 inserts the challenge row with status 1 and       *)
(* returns its id; query2 inserts the user's state row unless it exists;   *)
(* query3 sets the slot and issue_time WHERE user_id = ... AND             *)
(* active_challenge_id IS NULL.  When query3 matched no row the method     *)
(* rolls back, which undoes query1 and query2, and returns 0; else it      *)
(* commits and returns 1.  The sequence value drawn by query1 stays drawn. *)
(***************************************************************************)
\* A slip: the slot overwritten whether or not it is empty.
new_challenge_query3_where_any_slot(tbl, user_id) ==
    {r \in tbl : r.user_id = CastText(user_id)}

new_challenge_query3_where(tbl, user_id) ==
    {r \in tbl : r.user_id = CastText(user_id) /\ r.active_challenge_id = NULL}

new_challenge_query2(tbl, user_id) ==
    IF \E r \in tbl : r.user_id = CastText(user_id) THEN tbl
    ELSE tbl \cup {UserChallengeRow(user_id)}

\* A slip: the failure path returns 0 without rolling back.
new_challenge_no_rollback(user_id, issue_time, prob, delta) ==
    /\ challenge_seq < MaxChallenges
    /\ IF txn = "aborted" THEN RaiseKeepingTxn("new_challenge")
       ELSE LET last_id == challenge_seq + 1
                inserted == challenge \cup {ChallengeRow(last_id, user_id, issue_time, delta)}
                ensured == new_challenge_query2(user_challenge, user_id)
                hit == new_challenge_query3_where(ensured, user_id)
            IN  /\ challenge_seq' = last_id
                /\ txn' = "idle"
                /\ UNCHANGED <<duelVars, vcVars, handleVars, settingsVars, callerVars>>
                /\ challenge' = inserted
                /\ IF Cardinality(hit) # 1
                   THEN /\ user_challenge' = ensured
                        /\ ret' = Value("new_challenge", <<user_id>>, 0)
                   ELSE /\ user_challenge' = (ensured \ hit) \cup
                               {[r EXCEPT !.active_challenge_id = Some(last_id),
                                          !.issue_time = Some(issue_time)] : r \in hit}
                        /\ ret' = Value("new_challenge", <<user_id>>, 1)

new_challenge(user_id, issue_time, prob, delta) ==
    /\ challenge_seq < MaxChallenges
    /\ IF txn = "aborted" THEN RaiseKeepingTxn("new_challenge")
       ELSE LET last_id == challenge_seq + 1
                inserted == challenge \cup {ChallengeRow(last_id, user_id, issue_time, delta)}
                ensured == new_challenge_query2(user_challenge, user_id)
                hit == new_challenge_query3_where(ensured, user_id)
            IN  /\ challenge_seq' = last_id
                /\ txn' = "idle"
                /\ UNCHANGED <<duelVars, vcVars, handleVars, settingsVars, callerVars>>
                /\ IF Cardinality(hit) # 1
                   THEN /\ UNCHANGED <<challenge, user_challenge>>
                        /\ ret' = Value("new_challenge", <<user_id>>, 0)
                   ELSE /\ challenge' = inserted
                        /\ user_challenge' = (ensured \ hit) \cup
                               {[r EXCEPT !.active_challenge_id = Some(last_id),
                                          !.issue_time = Some(issue_time)] : r \in hit}
                        /\ ret' = Value("new_challenge", <<user_id>>, 1)

(***************************************************************************)
(* complete_challenge: query1 sets finish_time and GOTGUD on the challenge *)
(* WHERE id = ... AND status = GITGUD; query2 adds delta to the score, 1   *)
(* to num_completed and clears the slot WHERE user_id = ... AND            *)
(* active_challenge_id = the challenge.  Either statement matching no row  *)
(* rolls back and returns 0; else commit and 1.                            *)
(***************************************************************************)
complete_challenge_query1_where(tbl, challenge_id) ==
    {c \in tbl : c.id = challenge_id /\ c.status = GITGUD}

\* A slip: the slot pointer not compared with the challenge.
complete_challenge_query2_where_any_slot(tbl, user_id, challenge_id) ==
    {r \in tbl : r.user_id = CastText(user_id)}

complete_challenge_query2_where(tbl, user_id, challenge_id) ==
    {r \in tbl : r.user_id = CastText(user_id)
                 /\ r.active_challenge_id = Some(challenge_id)}

complete_challenge(user_id, challenge_id, finish_time, delta) ==
    IF txn = "aborted" THEN RaiseKeepingTxn("complete_challenge")
    ELSE LET hit1 == complete_challenge_query1_where(challenge, challenge_id)
             hit2 == complete_challenge_query2_where(user_challenge, user_id, challenge_id)
             args == <<user_id, challenge_id, delta>>
         IN  /\ txn' = "idle"
             /\ UNCHANGED <<challenge_seq, duelVars, vcVars, handleVars, settingsVars,
                            callerVars>>
             /\ IF Cardinality(hit1) # 1 \/ Cardinality(hit2) # 1
                THEN /\ UNCHANGED <<challenge, user_challenge>>
                     /\ ret' = Value("complete_challenge", args, 0)
                ELSE /\ challenge' = (challenge \ hit1) \cup
                            {[c EXCEPT !.finish_time = Some(finish_time),
                                       !.status = GOTGUD] : c \in hit1}
                     /\ user_challenge' = (user_challenge \ hit2) \cup
                            {[r EXCEPT !.score = @ + delta,
                                       !.num_completed = @ + 1,
                                       !.active_challenge_id = NULL,
                                       !.issue_time = NULL] : r \in hit2}
                     /\ ret' = Value("complete_challenge", args, 1)

(***************************************************************************)
(* skip_challenge: query1 clears the slot WHERE user_id = ... AND          *)
(* active_challenge_id = the challenge; query2 sets the given status on    *)
(* the challenge WHERE id = ... AND status = GITGUD.  Either statement     *)
(* matching no row rolls back and returns 0; else commit and 1.            *)
(***************************************************************************)
skip_challenge_query1_where(tbl, user_id, challenge_id) ==
    {r \in tbl : r.user_id = CastText(user_id)
                 /\ r.active_challenge_id = Some(challenge_id)}

skip_challenge_query2_where(tbl, challenge_id) ==
    {c \in tbl : c.id = challenge_id /\ c.status = GITGUD}

skip_challenge(user_id, challenge_id, status) ==
    IF txn = "aborted" THEN RaiseKeepingTxn("skip_challenge")
    ELSE LET hit1 == skip_challenge_query1_where(user_challenge, user_id, challenge_id)
             hit2 == skip_challenge_query2_where(challenge, challenge_id)
             args == <<user_id, challenge_id, status>>
         IN  /\ txn' = "idle"
             /\ UNCHANGED <<challenge_seq, duelVars, vcVars, handleVars, settingsVars,
                            callerVars>>
             /\ IF Cardinality(hit1) # 1 \/ Cardinality(hit2) # 1
                THEN /\ UNCHANGED <<challenge, user_challenge>>
                     /\ ret' = Value("skip_challenge", args, 0)
                ELSE /\ user_challenge' = (user_challenge \ hit1) \cup
                            {[r EXCEPT !.active_challenge_id = NULL,
                                       !.issue_time = NULL] : r \in hit1}
                     /\ challenge' = (challenge \ hit2) \cup
                            {[c EXCEPT !.status = status] : c \in hit2}
                     /\ ret' = Value("skip_challenge", args, 1)

InitGitgud ==
    /\ duel = {} /\ duel_seq = 0 /\ duelist = {}
    /\ rated_vcs = {} /\ vc_seq = 0 /\ rated_vc_users = {}
    /\ NoHandles /\ NoGitgud /\ NoSettings /\ NoIssuing
    /\ txn = "idle"
    /\ ret = None("__init__", << >>)

NewChallenge ==
    \E u \in GitgudUsers, t \in IssueTimes, p \in Problems, d \in RatingDeltas :
        new_challenge(u, t, p, d)

CompleteChallenge ==
    \E u \in GitgudUsers, c \in ChallengeIdArgs, t \in FinishTimes, d \in ScoreDeltas :
        complete_challenge(u, c, t, d)

SkipChallenge ==
    \E u \in GitgudUsers, c \in ChallengeIdArgs, s \in SkipStatuses :
        skip_challenge(u, c, s)

NextGitgud == NewChallenge \/ CompleteChallenge \/ SkipChallenge

SpecGitgud == InitGitgud /\ [][NextGitgud]_vars

(***************************************************************************)
(* Per-guild settings.  guild_id is cast to text by the statement;         *)
(* channel_id (and role_id, before) are text columns that take the text of *)
(* whatever value the caller passes.                                       *)
(***************************************************************************)
SettingGuilds == {7, 8}
Channels == {100, 200}
Roles == {300}
Befores == {400}

ChannelRow(guild_id, channel_id) ==
    [guild_id |-> CastText(guild_id), channel_id |-> CastText(channel_id)]

ReminderRow(guild_id, channel_id, role_id, before) ==
    [guild_id |-> CastText(guild_id), channel_id |-> CastText(channel_id),
     role_id |-> CastText(role_id), before |-> CastText(before)]

\* A slip: a plain INSERT tolerating the conflict, the stored row kept.
settings_keep_first(tbl, row) ==
    IF \E r \in tbl : r.guild_id = row.guild_id THEN tbl ELSE tbl \cup {row}

\* INSERT ... ON CONFLICT (guild_id) DO UPDATE SET <every other column> =
\* EXCLUDED.<column>: the guild's row replaced by the given one.
settings_upsert(tbl, row) ==
    {r \in tbl : r.guild_id # row.guild_id} \cup {row}

\* set_starboard: the upsert, then self.conn.commit(), outside any `with`.
set_starboard(guild_id, channel_id) ==
    IF txn = "aborted" THEN RaiseKeepingTxn("set_starboard")
    ELSE /\ starboard' = settings_upsert(starboard, ChannelRow(guild_id, channel_id))
         /\ ret' = None("set_starboard", <<guild_id, channel_id>>)
         /\ txn' = "idle"
         /\ UNCHANGED <<duelVars, vcVars, handleVars, gitgudVars, callerVars,
                        rankup, rated_vc_settings, reminder>>

\* set_rankup_channel: the upsert inside `with self.conn:`.
set_rankup_channel(guild_id, channel_id) ==
    IF txn = "aborted" THEN RaiseInWith("set_rankup_channel")
    ELSE /\ rankup' = settings_upsert(rankup, ChannelRow(guild_id, channel_id))
         /\ ret' = None("set_rankup_channel", <<guild_id, channel_id>>)
         /\ txn' = "idle"
         /\ UNCHANGED <<duelVars, vcVars, handleVars, gitgudVars, callerVars,
                        starboard, rated_vc_settings, reminder>>

\* set_rated_vc_channel: the upsert inside `with self.conn:`.
set_rated_vc_channel(guild_id, channel_id) ==
    IF txn = "aborted" THEN RaiseInWith("set_rated_vc_channel")
    ELSE /\ rated_vc_settings' =
                settings_upsert(rated_vc_settings, ChannelRow(guild_id, channel_id))
         /\ ret' = None("set_rated_vc_channel", <<guild_id, channel_id>>)
         /\ txn' = "idle"
         /\ UNCHANGED <<duelVars, vcVars, handleVars, gitgudVars, callerVars,
                        starboard, rankup, reminder>>

\* set_reminder_settings: the upsert, then self.conn.commit(), outside any
\* `with`.
set_reminder_settings(guild_id, channel_id, role_id, before) ==
    IF txn = "aborted" THEN RaiseKeepingTxn("set_reminder_settings")
    ELSE /\ reminder' =
                settings_upsert(reminder, ReminderRow(guild_id, channel_id, role_id, before))
         /\ ret' = None("set_reminder_settings", <<guild_id, channel_id>>)
         /\ txn' = "idle"
         /\ UNCHANGED <<duelVars, vcVars, handleVars, gitgudVars, callerVars,
                        starboard, rankup, rated_vc_settings>>

InitSettings ==
    /\ duel = {} /\ duel_seq = 0 /\ duelist = {}
    /\ rated_vcs = {} /\ vc_seq = 0 /\ rated_vc_users = {}
    /\ NoHandles /\ NoGitgud /\ NoSettings /\ NoIssuing
    /\ txn = "idle"
    /\ ret = None("__init__", << >>)

SetStarboard == \E g \in SettingGuilds, c \in Channels : set_starboard(g, c)

SetRankupChannel == \E g \in SettingGuilds, c \in Channels : set_rankup_channel(g, c)

SetRatedVcChannel == \E g \in SettingGuilds, c \in Channels : set_rated_vc_channel(g, c)

SetReminderSettings ==
    \E g \in SettingGuilds, c \in Channels, r \in Roles, b \in Befores :
        set_reminder_settings(g, c, r, b)

NextSettings ==
    \/ SetStarboard
    \/ SetRankupChannel
    \/ SetRatedVcChannel
    \/ SetReminderSettings

SpecSettings == InitSettings /\ [][NextSettings]_vars

(***************************************************************************)
(* Reads.  None of them runs inside `with self.conn:`; a read whose SELECT *)
(* succeeded and whose Python code then raises leaves the transaction      *)
(* usable.                                                                 *)
(***************************************************************************)
\* get_duel_rating: SELECT rating FROM duelist WHERE user_id = %s, then
\* cur.fetchone()[0]; fetchone() is None when no row matched, and None[0]
\* raises TypeError.
get_duel_rating(userid) ==
    IF txn = "aborted" THEN RaiseKeepingTxn("get_duel_rating")
    ELSE /\ ret' = IF \E r \in duelist : r.user_id = userid
                   THEN Value("get_duel_rating", <<userid>>,
                              (CHOOSE r \in duelist : r.user_id = userid).rating)
                   ELSE Raise("get_duel_rating", "TypeError")
         /\ txn' = "idle"
         /\ UNCHANGED <<duelVars, vcVars, otherVars>>

\* check_duel_withdraw: the SELECT is executed, and then executed again as
\* `cur.execute(query, (challenger,)).fetchone()`; psycopg2's cursor.execute
\* returns None, so the attribute lookup raises AttributeError whatever the
\* table holds.
check_duel_withdraw(challenger) ==
    IF txn = "aborted" THEN RaiseKeepingTxn("check_duel_withdraw")
    ELSE /\ ret' = Raise("check_duel_withdraw", "AttributeError")
         /\ txn' = "idle"
         /\ UNCHANGED <<duelVars, vcVars, otherVars>>

\* get_rated_vc_channel: `cur.execute(query, (guild_id,)).fetchone()` raises
\* AttributeError in the same way; the lines after it are not reached.
get_rated_vc_channel(guild_id) ==
    IF txn = "aborted" THEN RaiseKeepingTxn("get_rated_vc_channel")
    ELSE /\ ret' = Raise("get_rated_vc_channel", "AttributeError")
         /\ txn' = "idle"
         /\ UNCHANGED <<duelVars, vcVars, otherVars>>

\* get_handle: SELECT handle ... WHERE user_id = ... AND guild_id = ...;
\* returns res[0] if a row came back, else None.
get_handle(user_id, guild_id) ==
    IF txn = "aborted" THEN RaiseKeepingTxn("get_handle")
    ELSE LET res == {r \in user_handle :
                        r.user_id = CastText(user_id) /\ r.guild_id = CastText(guild_id)}
         IN  /\ ret' \in IF res = {} THEN {None("get_handle", <<user_id, guild_id>>)}
                         ELSE {Value("get_handle", <<user_id, guild_id>>, r.handle) :
                                  r \in res}
             /\ txn' = "idle"
             /\ UNCHANGED <<duelVars, vcVars, otherVars>>

\* UPPER(text): the handles of HandleNames have different upper-case forms.
Upper(h) == [upper |-> h]

\* get_user_id: SELECT user_id ... WHERE UPPER(handle) = UPPER(%s) AND
\* guild_id = ... AND active = 1; returns int(res[0]) if a row came back,
\* else None.
get_user_id(handle, guild_id) ==
    IF txn = "aborted" THEN RaiseKeepingTxn("get_user_id")
    ELSE LET res == {r \in user_handle :
                        /\ Upper(r.handle) = Upper(handle)
                        /\ r.guild_id = CastText(guild_id)
                        /\ r.active = 1}
         IN  /\ ret' \in IF res = {} THEN {None("get_user_id", <<handle, guild_id>>)}
                         ELSE {Value("get_user_id", <<handle, guild_id>>, int(r.user_id)) :
                                  r \in res}
             /\ txn' = "idle"
             /\ UNCHANGED <<duelVars, vcVars, otherVars>>

(***************************************************************************)
(* SpecReads: the reads, over a store that one user, one guild, one handle *)
(* and one channel can fill.                                               *)
(***************************************************************************)
ReadUsers == {1}
ReadGuilds == {7}
ReadHandles == {501}
ReadChannels == {100}

InitReads ==
    /\ duel = {} /\ duel_seq = 0 /\ duelist = {}
    /\ rated_vcs = {} /\ vc_seq = 0 /\ rated_vc_users = {}
    /\ NoHandles /\ NoGitgud /\ NoSettings /\ NoIssuing
    /\ txn = "idle"
    /\ ret = None("__init__", << >>)

ReadsCreateDuel ==
    \E u \in ReadUsers, t \in IssueTimes, p \in Problems :
        create_duel(u, 2, t, p, OFFICIAL)

ReadsRegisterDuelist == \E u \in ReadUsers : register_duelist(u)

ReadsSetHandle ==
    \E u \in ReadUsers, g \in ReadGuilds, h \in ReadHandles : set_handle(u, g, h)

ReadsSetInactive == \E g \in ReadGuilds, u \in ReadUsers : set_inactive(g, u)

ReadsSetRatedVcChannel ==
    \E g \in ReadGuilds, c \in ReadChannels : set_rated_vc_channel(g, c)

GetDuelRating == \E u \in ReadUsers : get_duel_rating(u)

CheckDuelWithdraw == \E u \in ReadUsers : check_duel_withdraw(u)

GetRatedVcChannel == \E g \in ReadGuilds : get_rated_vc_channel(g)

ReadsGetVcRating == \E u \in ReadUsers, dflt \in BOOLEAN : get_vc_rating(u, dflt)

GetHandle == \E u \in ReadUsers, g \in ReadGuilds : get_handle(u, g)

GetUserId == \E h \in ReadHandles, g \in ReadGuilds : get_user_id(h, g)

NextReads ==
    \/ ReadsCreateDuel
    \/ ReadsRegisterDuelist
    \/ ReadsSetHandle
    \/ ReadsSetInactive
    \/ ReadsSetRatedVcChannel
    \/ GetDuelRating
    \/ CheckDuelWithdraw
    \/ GetRatedVcChannel
    \/ ReadsGetVcRating
    \/ GetHandle
    \/ GetUserId
    \/ rollback

SpecReads == InitReads /\ [][NextReads]_vars

(***************************************************************************)
(* SpecArena: the duel life cycle with registered duelists.  The database  *)
(* may hold a legacy ONGOING duel between users 1 and 2, either of whom    *)
(* may have registered; duels are created, cancelled, started,             *)
(* invalidated and completed with any winner_id, loser_id and dtype.       *)
(***************************************************************************)
ArenaUsers == {1, 2}
ArenaDeltas == {5}
ArenaWinners == {CHALLENGER}

InitArena ==
    /\ duel \in LegacyDuelTables
    /\ duel_seq = SetvalAfterCreate(duel)
    /\ duelist = {}
    /\ rated_vcs = {}
    /\ vc_seq = 0
    /\ rated_vc_users = {}
    /\ NoHandles /\ NoGitgud /\ NoSettings /\ NoIssuing
    /\ txn = "idle"
    /\ ret = None("__init__", << >>)

ArenaRegisterDuelist == \E u \in ArenaUsers : register_duelist(u)

ArenaCreateDuel ==
    \E t \in IssueTimes, p \in Problems : create_duel(1, 2, t, p, OFFICIAL)

ArenaCompleteDuel ==
    \E d \in DuelIdArgs, w \in ArenaWinners, ft \in FinishTimes, wid \in ArenaUsers,
       lid \in ArenaUsers, delta \in ArenaDeltas, ty \in DuelTypes :
        complete_duel(d, w, ft, wid, lid, delta, ty, 0)

NextArena ==
    \/ ArenaRegisterDuelist
    \/ ArenaCreateDuel
    \/ CancelDuel
    \/ StartDuel
    \/ InvalidateDuel
    \/ ArenaCompleteDuel
    \/ rollback

SpecArena == InitArena /\ [][NextArena]_vars

(***************************************************************************)
(* get_rated_vc_user_ids: SELECT user_id FROM rated_vc_users WHERE vc_id = *)
(* %s through _fetchall, outside any `with self.conn:`; the user ids of    *)
(* the rows come back.                                                     *)
(***************************************************************************)
get_rated_vc_user_ids_where(tbl, vc_id) == {r \in tbl : r.vc_id = vc_id}

get_rated_vc_user_ids(vc_id) ==
    IF txn = "aborted" THEN RaiseKeepingTxn("get_rated_vc_user_ids")
    ELSE /\ ret' = Listing("get_rated_vc_user_ids", <<vc_id>>,
                           {r.user_id : r \in get_rated_vc_user_ids_where(rated_vc_users, vc_id)})
         /\ txn' = "idle"
         /\ UNCHANGED <<duelVars, vcVars, otherVars>>

(***************************************************************************)
(* SpecRoster: contests are created, finished and rated, and their rosters *)
(* read, on a database that may hold earlier contests.                     *)
(***************************************************************************)
GetRatedVcUserIds == \E v \in VcIdArgs : get_rated_vc_user_ids(v)

NextRoster ==
    \/ CreateRatedVc
    \/ FinishRatedVc
    \/ LifeUpdateVcRating
    \/ GetRatedVcUserIds

SpecRoster == InitVcLife /\ [][NextRoster]_vars

(***************************************************************************)
(* The duel statistics.  Each is one SELECT outside any `with self.conn:`. *)
(* get_duel_wins returns the matching rows (fetchall), the other three the *)
(* count of them.  A comparison with the NULL winner of a duel that has    *)
(* none is not true, so such a row matches no `winner = ...`.              *)
(***************************************************************************)
\* What fetchall gave: one entry per matching row, here keyed by the row's id
\* (two rows may agree on every selected column).
Fetched(op, args, rows) == [op |-> op, args |-> args, kind |-> "rows", val |-> rows]

get_duel_wins_where(tbl, userid) ==
    {d \in tbl : /\ \/ (d.challenger = userid /\ d.winner = Some(CHALLENGER))
                    \/ (d.challengee = userid /\ d.winner = Some(CHALLENGEE))
                 /\ d.status = COMPLETE}

get_duel_wins(userid) ==
    IF txn = "aborted" THEN RaiseKeepingTxn("get_duel_wins")
    ELSE /\ ret' = LET rows == get_duel_wins_where(duel, userid)
                   IN  Fetched("get_duel_wins", <<userid>>,
                               [id \in {d.id : d \in rows} |->
                                    LET d == CHOOSE x \in rows : x.id = id
                                    IN  <<d.start_time, d.finish_time, d.problem,
                                          d.challenger, d.challengee>>])
         /\ txn' = "idle"
         /\ UNCHANGED <<duelVars, vcVars, otherVars>>

get_num_duel_completed_where(tbl, userid) ==
    {d \in tbl : (d.challengee = userid \/ d.challenger = userid) /\ d.status = COMPLETE}

get_num_duel_completed(userid) ==
    IF txn = "aborted" THEN RaiseKeepingTxn("get_num_duel_completed")
    ELSE /\ ret' = Value("get_num_duel_completed", <<userid>>,
                         Cardinality(get_num_duel_completed_where(duel, userid)))
         /\ txn' = "idle"
         /\ UNCHANGED <<duelVars, vcVars, otherVars>>

get_num_duel_draws_where(tbl, userid) ==
    {d \in tbl : (d.challengee = userid \/ d.challenger = userid) /\ d.winner = Some(DRAW)}

get_num_duel_draws(userid) ==
    IF txn = "aborted" THEN RaiseKeepingTxn("get_num_duel_draws")
    ELSE /\ ret' = Value("get_num_duel_draws", <<userid>>,
                         Cardinality(get_num_duel_draws_where(duel, userid)))
         /\ txn' = "idle"
         /\ UNCHANGED <<duelVars, vcVars, otherVars>>

\* A slip: the two roles the wrong way round, which counts the wins.
get_num_duel_losses_where_roles_swapped(tbl, userid) ==
    {d \in tbl : /\ \/ (d.challenger = userid /\ d.winner = Some(CHALLENGER))
                    \/ (d.challengee = userid /\ d.winner = Some(CHALLENGEE))
                 /\ d.status = COMPLETE}

get_num_duel_losses_where(tbl, userid) ==
    {d \in tbl : /\ \/ (d.challengee = userid /\ d.winner = Some(CHALLENGER))
                    \/ (d.challenger = userid /\ d.winner = Some(CHALLENGEE))
                 /\ d.status = COMPLETE}

get_num_duel_losses(userid) ==
    IF txn = "aborted" THEN RaiseKeepingTxn("get_num_duel_losses")
    ELSE /\ ret' = Value("get_num_duel_losses", <<userid>>,
                         Cardinality(get_num_duel_losses_where(duel, userid)))
         /\ txn' = "idle"
         /\ UNCHANGED <<duelVars, vcVars, otherVars>>

(***************************************************************************)
(* SpecStats: the duel life cycle together with the statistics.  The       *)
(* database may hold, from an earlier deployment, one ONGOING duel, or a   *)
(* COMPLETE duel and an ONGOING return match.                              *)
(***************************************************************************)
StatsUsers == {1, 2}

StatsDuelTables ==
    LegacyDuelTables \cup
    {{[DuelRow(1, 1, 2, 10, "A", OFFICIAL) EXCEPT !.status = COMPLETE,
            !.start_time = Some(20), !.finish_time = Some(30), !.winner = Some(w)],
      [DuelRow(2, 2, 1, 10, "A", OFFICIAL) EXCEPT !.status = ONGOING,
            !.start_time = Some(20)]} : w \in Winners}

InitStats ==
    /\ duel \in StatsDuelTables
    /\ duel_seq = SetvalAfterCreate(duel)
    /\ duelist = {}
    /\ rated_vcs = {}
    /\ vc_seq = 0
    /\ rated_vc_users = {}
    /\ NoHandles /\ NoGitgud /\ NoSettings /\ NoIssuing
    /\ txn = "idle"
    /\ ret = None("__init__", << >>)

StatsCreateDuel ==
    \E t \in IssueTimes, p \in Problems : create_duel(1, 2, t, p, OFFICIAL)

StatsCompleteDuel ==
    \E d \in DuelIdArgs, w \in Winners, ft \in FinishTimes :
        complete_duel(d, w, ft, NoUser, NoUser, 0, OFFICIAL, 0)

GetDuelWins == \E u \in StatsUsers : get_duel_wins(u)

GetNumDuelCompleted == \E u \in StatsUsers : get_num_duel_completed(u)

GetNumDuelDraws == \E u \in StatsUsers : get_num_duel_draws(u)

GetNumDuelLosses == \E u \in StatsUsers : get_num_duel_losses(u)

NextStats ==
    \/ StatsCreateDuel
    \/ CancelDuel
    \/ StartDuel
    \/ InvalidateDuel
    \/ StatsCompleteDuel
    \/ GetDuelWins
    \/ GetNumDuelCompleted
    \/ GetNumDuelDraws
    \/ GetNumDuelLosses
    \/ rollback

SpecStats == InitStats /\ [][NextStats]_vars

(***************************************************************************)
(* SpecRace: two issuance requests run in the command layer at the same    *)
(* time.  Each request first runs check_duel_challenge for its challenger  *)
(* and its challengee and stops when either has a PENDING or ONGOING duel; *)
(* it then waits (for the problem to be chosen) and calls create_duel.     *)
(* The calls of UserDbConn are atomic, one connection and no await inside  *)
(* them; the requests interleave between the check and the create.  A      *)
(* request is at "start", at "checked" (its checks found nothing) or at    *)
(* "refused"; it has created its duel when the table holds the row with    *)
(* its issue time.                                                         *)
(***************************************************************************)
RaceRequests == {1, 2}
RaceChallenges == {<<1, 2>>, <<2, 3>>, <<3, 1>>}
RaceIssueTime(i) == 10 + i

Request(pc, challenger, challengee) ==
    [pc |-> pc, challenger |-> challenger, challengee |-> challengee]

HasCreated(i) == \E d \in duel : d.issue_time = RaceIssueTime(i)

issue_check(i) ==
    LET challenger == issuing[i].challenger
        challengee == issuing[i].challengee
    IN  /\ issuing[i].pc = "start"
        /\ IF txn = "aborted" THEN RaiseKeepingTxn("check_duel_challenge")
           ELSE \E r1 \in check_duel_challenge(duel, challenger),
                   r2 \in check_duel_challenge(duel, challengee) :
                   /\ issuing' = [issuing EXCEPT ![i].pc =
                                     IF r1 = NULL /\ r2 = NULL THEN "checked" ELSE "refused"]
                   /\ ret' = IF r1 # NULL
                             THEN Value("check_duel_challenge", <<challenger>>, r1[1])
                             ELSE IF r2 # NULL
                             THEN Value("check_duel_challenge", <<challengee>>, r2[1])
                             ELSE None("check_duel_challenge", <<challengee>>)
                   /\ txn' = "idle"
                   /\ UNCHANGED <<duelVars, vcVars, handleVars, gitgudVars, settingsVars>>

issue_create(i, prob) ==
    /\ issuing[i].pc = "checked"
    /\ ~ HasCreated(i)
    /\ create_duel(issuing[i].challenger, issuing[i].challengee, RaceIssueTime(i), prob,
                   OFFICIAL)

InitRace ==
    /\ duel \in LegacyDuelTables
    /\ duel_seq = SetvalAfterCreate(duel)
    /\ duelist = {}
    /\ rated_vcs = {}
    /\ vc_seq = 0
    /\ rated_vc_users = {}
    /\ NoHandles /\ NoGitgud /\ NoSettings
    /\ issuing \in [RaceRequests -> {Request("start", c[1], c[2]) : c \in RaceChallenges}]
    /\ txn = "idle"
    /\ ret = None("__init__", << >>)

IssueCheck == \E i \in RaceRequests : issue_check(i)

IssueCreate == \E i \in RaceRequests, p \in Problems : issue_create(i, p)

NextRace ==
    \/ IssueCheck
    \/ IssueCreate
    \/ CancelDuel
    \/ InvalidateDuel

SpecRace == InitRace /\ [][NextRace]_vars

(***************************************************************************)
(* SpecContend: callers contend for one duel.  The table holds a single    *)
(* duel between users 1 and 2, PENDING or ONGOING, and every call is a     *)
(* transition of that duel.  A method of UserDbConn runs from its first    *)
(* line to its return without yielding, so two concurrent attempts are two *)
(* calls one after the other, in either order.                             *)
(***************************************************************************)
ContendedDuelTables ==
    (LegacyDuelTables \ {{}}) \cup {{DuelRow(1, 1, 2, 10, "A", t)} : t \in DuelTypes}

InitContend ==
    /\ duel \in ContendedDuelTables
    /\ duel_seq = SetvalAfterCreate(duel)
    /\ duelist = {}
    /\ rated_vcs = {}
    /\ vc_seq = 0
    /\ rated_vc_users = {}
    /\ NoHandles /\ NoGitgud /\ NoSettings /\ NoIssuing
    /\ txn = "idle"
    /\ ret = None("__init__", << >>)

ContendCancelDuel == \E d \in duel, s \in CancelStatuses : cancel_duel(d.id, s)

ContendStartDuel == \E d \in duel, t \in StartTimes : start_duel(d.id, t)

ContendInvalidateDuel == \E d \in duel : invalidate_duel(d.id)

ContendCompleteDuel ==
    \E d \in duel, w \in Winners, ft \in FinishTimes, delta \in ArenaDeltas :
        complete_duel(d.id, w, ft, d.challenger, d.challengee, delta, d.type, 0)

NextContend ==
    \/ ArenaRegisterDuelist
    \/ ContendCancelDuel
    \/ ContendStartDuel
    \/ ContendInvalidateDuel
    \/ ContendCompleteDuel
    \/ rollback

SpecContend == InitContend /\ [][NextContend]_vars

(***************************************************************************)
(* Properties.                                                             *)
(***************************************************************************)
StatusOf(tbl, id) ==
    IF \E d \in tbl : d.id = id THEN Some((CHOOSE d \in tbl : d.id = id).status) ELSE NULL

RatingOf(tbl, u) ==
    IF \E r \in tbl : r.user_id = u
    THEN Some((CHOOSE r \in tbl : r.user_id = u).rating) ELSE NULL

IsDuelist(tbl, u) == \E r \in tbl : r.user_id = u

\* A user's duels that are PENDING or ONGOING.
ActiveDuels(tbl, u) ==
    {d \in tbl : (d.challenger = u \/ d.challengee = u) /\ d.status \in {PENDING, ONGOING}}

\* The ledger with x added to u's rating, if u is a duelist.
LedgerPlus(tbl, u, x) ==
    {IF r.user_id = u THEN [user_id |-> u, rating |-> r.rating + x] ELSE r : r \in tbl}

LegalEdges ==
    {<<PENDING, DECLINED>>, <<PENDING, WITHDRAWN>>, <<PENDING, EXPIRED>>,
     <<PENDING, ONGOING>>, <<ONGOING, COMPLETE>>, <<ONGOING, INVALID>>}

Absorbing == {DECLINED, WITHDRAWN, EXPIRED, COMPLETE, INVALID}

\* C1: a complete_duel call that returns returns 0 or 1, and 1 exactly when the
\* duel was ONGOING at the call; after it returned 1 the duel is COMPLETE; and
\* no step of any operation, on it or on another duel, changes the status of a
\* COMPLETE duel.
C1_CompleteIffOngoing ==
    [][/\ (ret'.op = "complete_duel" /\ ret'.kind = "value") =>
            /\ ret'.val \in {0, 1}
            /\ (ret'.val = 1) <=> (StatusOf(duel, ret'.args[1]) = Some(ONGOING))
            /\ (ret'.val = 1) => (StatusOf(duel', ret'.args[1]) = Some(COMPLETE))
       /\ \A d \in duel : d.status = COMPLETE => StatusOf(duel', d.id) = Some(COMPLETE)
      ]_vars

\* A second complete_duel on a duel that was completed returned 0.
C1_Witness ==
    /\ ret.op = "complete_duel" /\ ret.kind = "value" /\ ret.val = 0
    /\ \E d \in duel : d.id = ret.args[1] /\ d.status = COMPLETE /\ d.finish_time # NULL

\* C2: when complete_duel returns 1 with dtype OFFICIAL and winner_id, loser_id
\* two distinct duelists, the winner's rating has risen by delta, the loser's
\* has fallen by delta, and no other duelist row has changed.
C2_OfficialDeltas ==
    [][(/\ ret'.op = "complete_duel" /\ ret'.kind = "value" /\ ret'.val = 1
        /\ ret'.args[5] = OFFICIAL
        /\ ret'.args[2] # ret'.args[3]
        /\ IsDuelist(duelist, ret'.args[2])
        /\ IsDuelist(duelist, ret'.args[3])) =>
            LET wid == ret'.args[2]
                lid == ret'.args[3]
                delta == ret'.args[4]
            IN  /\ RatingOf(duelist', wid) = Some(RatingOf(duelist, wid)[1] + delta)
                /\ RatingOf(duelist', lid) = Some(RatingOf(duelist, lid)[1] - delta)
                /\ \A r \in duelist : r.user_id \notin {wid, lid} => r \in duelist'
                /\ {r.user_id : r \in duelist'} = {r.user_id : r \in duelist}
      ]_vars

\* An official completion with delta 5 between two duelists, a third standing by.
C2_Witness ==
    /\ ret.op = "complete_duel" /\ ret.kind = "value" /\ ret.val = 1
    /\ ret.args[5] = OFFICIAL /\ ret.args[4] = 5 /\ ret.args[2] # ret.args[3]
    /\ RatingOf(duelist, ret.args[2]) = Some(DUELIST_INITIAL_RATING + 5)
    /\ RatingOf(duelist, ret.args[3]) = Some(DUELIST_INITIAL_RATING - 5)
    /\ \E r \in duelist : r.user_id \notin {ret.args[2], ret.args[3]}
                          /\ r.rating = DUELIST_INITIAL_RATING

\* C3: an official complete_duel on an ONGOING duel is all or nothing, also when
\* one of its statements fails: afterwards either the duel is COMPLETE and both
\* rating changes are in the ledger, or it is still ONGOING and the ledger is
\* as it was.
C3_AllOrNothing ==
    [][\A d \in LedgerDuelIds, w \in LedgerWinners, ft \in FinishTimes, wid \in Users,
          lid \in Users, delta \in Deltas, f \in FailPoints :
            (/\ txn = "idle"
             /\ StatusOf(duel, d) = Some(ONGOING)
             /\ complete_duel(d, w, ft, wid, lid, delta, OFFICIAL, f)) =>
                \/ /\ StatusOf(duel', d) = Some(COMPLETE)
                   /\ duelist' = LedgerPlus(LedgerPlus(duelist, wid, delta), lid, 0 - delta)
                \/ /\ StatusOf(duel', d) = Some(ONGOING)
                   /\ duelist' = duelist
      ]_vars

\* C4: complete_duel on a duel id that is not ONGOING (or does not exist), if
\* it returns, returns 0 and leaves every table as it was; and no complete_duel
\* call, returning or raising, changes a duel row that was not ONGOING or
\* changes a rating without completing a duel.
C4_NotOngoingNoChange ==
    [][ret'.op = "complete_duel" =>
            /\ (ret'.kind = "value" /\ StatusOf(duel, ret'.args[1]) # Some(ONGOING)) =>
                    /\ ret'.val = 0
                    /\ UNCHANGED <<duelVars, vcVars>>
            /\ \A d \in duel : d.status # ONGOING => d \in duel'
            /\ (duel' = duel) => (duelist' = duelist)
      ]_vars

\* An official complete_duel with delta 5 for two duelists, on a duel that is
\* already COMPLETE or INVALID, returned 0.
C4_Witness ==
    /\ ret.op = "complete_duel" /\ ret.kind = "value" /\ ret.val = 0
    /\ ret.args[5] = OFFICIAL /\ ret.args[4] = 5 /\ ret.args[2] # ret.args[3]
    /\ IsDuelist(duelist, ret.args[2]) /\ IsDuelist(duelist, ret.args[3])
    /\ StatusOf(duel, ret.args[1]) \in {Some(COMPLETE), Some(INVALID)}

\* C5: in every step every duel row stays, and its status stays the same or
\* moves along PENDING->DECLINED, PENDING->WITHDRAWN, PENDING->EXPIRED,
\* PENDING->ONGOING, ONGOING->COMPLETE or ONGOING->INVALID.
C5_LegalTransitions ==
    [][\A d \in duel : \E e \in duel' :
            /\ e.id = d.id
            /\ (e.status = d.status \/ <<d.status, e.status>> \in LegalEdges)
      ]_vars

\* A transition of one duel succeeded while another duel was in an absorbing
\* status.
C5_Witness ==
    /\ ret.op \in {"cancel_duel", "invalidate_duel", "complete_duel"}
    /\ ret.kind = "value" /\ ret.val = 1
    /\ \E d \in duel : d.id # ret.args[1] /\ d.status \in Absorbing

\* C6: start_duel(duelid, start_time) on a usable connection returns 1 and makes
\* the row ONGOING with that start_time, other rows untouched, when the row is
\* PENDING; otherwise it returns 0 and no duel row changes.
C6_StartDuelGuarded ==
    [][\A id \in DuelIdArgs, t \in StartTimes :
            (txn = "idle" /\ start_duel(id, t)) =>
                IF StatusOf(duel, id) = Some(PENDING)
                THEN /\ ret'.kind = "value" /\ ret'.val = 1
                     /\ \E e \in duel' : e.id = id /\ e.status = ONGOING
                                         /\ e.start_time = Some(t)
                     /\ \A d \in duel : d.id # id => d \in duel'
                ELSE /\ ret'.kind = "value" /\ ret'.val = 0
                     /\ duel' = duel
      ]_vars

\* C7: when every duel is issued by check-then-create, each user is a party of
\* at most one PENDING or ONGOING duel, and a row is added only for parties who
\* had no such duel (an issuance for a busy user is rejected).
C7_OneActiveDuelPerUser ==
    /\ [](\A u \in Users : Cardinality(ActiveDuels(duel, u)) <= 1)
    /\ [][\A n \in duel' :
             (~ \E d \in duel : d.id = n.id) =>
                 /\ ActiveDuels(duel, n.challenger) = {}
                 /\ ActiveDuels(duel, n.challengee) = {}
         ]_vars

\* An issuance was rejected: the check found the PENDING duel of a party.
C7_Witness ==
    /\ ret.op = "check_duel_challenge" /\ ret.kind = "value"
    /\ \E d \in duel : /\ d.id = ret.val
                       /\ d.status = PENDING
                       /\ ret.args[1] \in {d.challenger, d.challengee}

VcStatusOf(tbl, id) ==
    IF \E v \in tbl : v.id = id THEN Some((CHOOSE v \in tbl : v.id = id).status) ELSE NULL

ParticipationRows(tbl, vc_id, user_id) ==
    {r \in tbl : r.vc_id = vc_id /\ r.user_id = CastText(user_id)}

\* C8: finish_rated_vc on a usable connection raises nothing and leaves an
\* existing contest FINISHED; on a contest that is already FINISHED (a second
\* call) it leaves every table as it was.
C8_FinishIdempotent ==
    [][(ret'.op = "finish_rated_vc" /\ txn = "idle") =>
            /\ ret'.kind = "none"
            /\ \A v \in rated_vcs : v.id = ret'.args[1] =>
                    /\ VcStatusOf(rated_vcs', v.id) = Some(VC_FINISHED)
                    /\ (v.status = VC_FINISHED) => UNCHANGED <<duelVars, vcVars>>
      ]_vars

\* finish_rated_vc returned on a contest that is FINISHED.
C8_Witness ==
    /\ ret.op = "finish_rated_vc" /\ ret.kind = "none"
    /\ VcStatusOf(rated_vcs, ret.args[1]) = Some(VC_FINISHED)

UniqueParticipation(tbl) ==
    \A r1 \in tbl, r2 \in tbl :
        (r1.vc_id = r2.vc_id /\ r1.user_id = r2.user_id) => r1 = r2

\* C9: no two participation rows ever share (vc_id, user_id); after
\* update_vc_rating(v, u, r) on a usable connection, v the id of a rated_vcs
\* row, there is exactly one row for (v, u), its rating is r (so r2 after r1
\* then r2), and the rows of other pairs are unchanged; a call that the
\* foreign key rejects raises and changes no row.
C9_UpsertExistingVc ==
    /\ [] UniqueParticipation(rated_vc_users)
    /\ [][(ret'.op = "update_vc_rating" /\ txn = "idle") =>
             IF ret'.kind = "none"
             THEN LET v == ret'.args[1]
                      u == ret'.args[2]
                      r == ret'.args[3]
                  IN  /\ \E vc \in rated_vcs : vc.id = v
                      /\ ParticipationRows(rated_vc_users', v, u) = {VcUserRow(v, u, Some(r))}
                      /\ rated_vc_users' \ ParticipationRows(rated_vc_users', v, u)
                             = rated_vc_users \ ParticipationRows(rated_vc_users, v, u)
             ELSE /\ ret'.kind = "error"
                  /\ rated_vc_users' = rated_vc_users
         ]_vars

\* A rating was recorded over the null rating of a roster row, the other
\* roster row of the contest still unrated.
C9_Witness ==
    /\ ret.op = "update_vc_rating" /\ ret.kind = "none" /\ ret.args = <<1, 1, 1600>>
    /\ ParticipationRows(rated_vc_users, 1, 1) = {VcUserRow(1, 1, Some(1600))}
    /\ VcUserRow(1, 2, NULL) \in rated_vc_users

RatedRows(tbl, user_id) ==
    {r \in tbl : r.user_id = CastText(user_id) /\ r.rating # NULL}

\* C10: get_vc_rating(user) on a usable connection returns the rating of the
\* user's rated row with the largest vc_id; without a rated row it returns
\* 1500 if default_if_not_exist and None otherwise.
C10_LatestVcRating ==
    [][\A u \in VcUsers, dflt \in BOOLEAN :
            (txn = "idle" /\ get_vc_rating(u, dflt)) =>
                LET rated == RatedRows(rated_vc_users, u)
                IN  IF rated = {}
                    THEN IF dflt
                         THEN ret'.kind = "value" /\ ret'.val = _DEFAULT_VC_RATING
                         ELSE ret'.kind = "none"
                    ELSE /\ ret'.kind = "value"
                         /\ \E r \in rated : /\ \A q \in rated : q.vc_id <= r.vc_id
                                             /\ ret'.val = r.rating[1]
      ]_vars

OngoingVcIds(tbl) == {v.id : v \in {w \in tbl : w.status = VC_ONGOING}}

\* C11: in every step each rated_vcs row stays; a row changes status only by
\* finish_rated_vc called on its id, and a FINISHED row stays FINISHED; a row
\* enters only through create_rated_vc and enters ONGOING; and
\* get_ongoing_rated_vc_ids returns exactly the ids of the ONGOING rows.
C11_VcLifecycle ==
    [][/\ \A v \in rated_vcs : \E w \in rated_vcs' :
            /\ w.id = v.id
            /\ (v.status = VC_FINISHED) => (w.status = VC_FINISHED)
            /\ (w.status # v.status) => (ret' = None("finish_rated_vc", <<v.id>>))
       /\ \A w \in rated_vcs' :
            (~ \E v \in rated_vcs : v.id = w.id) =>
                (w.status = VC_ONGOING /\ ret'.op = "create_rated_vc")
       /\ (ret'.op = "get_ongoing_rated_vc_ids" /\ ret'.kind = "list") =>
            (ret'.val = OngoingVcIds(rated_vcs'))
      ]_vars

\* The listing came back with a contest created by this deployment in it and
\* a finished contest not in it.
C11_Witness ==
    /\ ret.op = "get_ongoing_rated_vc_ids" /\ ret.kind = "list"
    /\ \E v \in rated_vcs : v.status = VC_FINISHED /\ v.id \notin ret.val
    /\ \E v \in rated_vcs : v.status = VC_ONGOING /\ v.id \in ret.val /\ v.id = vc_seq

NoRepeat(user_ids) ==
    \A i \in 1 .. Len(user_ids), j \in 1 .. Len(user_ids) :
        (user_ids[i] = user_ids[j]) => (i = j)

\* C12: create_rated_vc on a usable connection, with a roster that lists no
\* user twice, adds exactly one rated_vcs row, ONGOING and with a fresh id,
\* adds one null-rated participation row with that id per listed user, and
\* returns that id; with a user listed twice it raises and leaves neither a
\* contest row nor a participation row.
C12_CreateRatedVcTransaction ==
    [][\A c \in ContestIds, st \in IssueTimes, ft \in FinishTimes, g \in Guilds,
          us \in Rosters :
            (txn = "idle" /\ create_rated_vc(c, st, ft, g, us)) =>
                IF NoRepeat(us)
                THEN \E w \in rated_vcs' :
                        /\ ~ \E v \in rated_vcs : v.id = w.id
                        /\ rated_vcs' = rated_vcs \cup {w}
                        /\ w.status = VC_ONGOING
                        /\ rated_vc_users' = rated_vc_users \cup
                               {VcUserRow(w.id, us[i], NULL) : i \in 1 .. Len(us)}
                        /\ ret'.kind = "value"
                        /\ ret'.val = w.id
                ELSE /\ ret'.kind = "error"
                     /\ rated_vcs' = rated_vcs
                     /\ rated_vc_users' = rated_vc_users
      ]_vars

BoundToOther(tbl, user_id, guild_id, handle) ==
    \E r \in tbl : /\ r.guild_id = CastText(guild_id)
                   /\ r.handle = handle
                   /\ r.user_id # CastText(user_id)

\* C13: in every state no two rows of one guild carry the same handle and no
\* two rows share (user_id, guild_id); set_handle(u, g, h) on a usable
\* connection raises UniqueConstraintFailed and leaves user_handle unchanged
\* when h is bound to another user of g, and otherwise succeeds, leaving u
\* bound to h in g and every other row unchanged (so a binding of h to u that
\* was there stays).
C13_HandleUnique ==
    /\ [](\A r1 \in user_handle, r2 \in user_handle :
            /\ (r1.guild_id = r2.guild_id /\ r1.handle = r2.handle) => r1 = r2
            /\ (r1.guild_id = r2.guild_id /\ r1.user_id = r2.user_id) => r1 = r2)
    /\ [][\A u \in HandleUsers, g \in HandleGuilds, h \in HandleNames :
             (txn = "idle" /\ set_handle(u, g, h)) =>
                 IF BoundToOther(user_handle, u, g, h)
                 THEN /\ ret'.kind = "UniqueConstraintFailed"
                      /\ user_handle' = user_handle
                 ELSE /\ ret'.kind = "value"
                      /\ HandleRow(u, g, h, 1) \in user_handle'
                      /\ \A r \in user_handle :
                            (r.user_id # CastText(u) \/ r.guild_id # CastText(g))
                                => r \in user_handle'
                      /\ \A r \in user_handle' :
                            r = HandleRow(u, g, h, 1) \/ r \in user_handle
         ]_vars

\* set_handle was refused: both users of a guild are bound, to different
\* handles, and the last call asked for the other user's handle.
C13_Witness ==
    /\ ret.op = "set_handle" /\ ret.kind = "UniqueConstraintFailed"
    /\ \E r1 \in user_handle, r2 \in user_handle :
            /\ r1.guild_id = r2.guild_id
            /\ r1.user_id # r2.user_id
            /\ r1.handle # r2.handle

ActiveChallenges(tbl, user_id) ==
    {c \in tbl : c.user_id = CastText(user_id) /\ c.status = GITGUD}

SlotOf(tbl, user_id) ==
    IF \E r \in tbl : r.user_id = CastText(user_id)
    THEN (CHOOSE r \in tbl : r.user_id = CastText(user_id)).active_challenge_id
    ELSE NULL

\* C14: in every state each user owns at most one challenge row with status
\* GITGUD, and the user's active_challenge_id is non-null exactly when such a
\* row exists, and then is its id.
C14_OneActiveChallenge ==
    \A u \in GitgudUsers :
        /\ Cardinality(ActiveChallenges(challenge, u)) <= 1
        /\ (SlotOf(user_challenge, u) # NULL) <=> (ActiveChallenges(challenge, u) # {})
        /\ \A c \in ActiveChallenges(challenge, u) : SlotOf(user_challenge, u) = Some(c.id)

\* A user with an active challenge asked for another one and was refused,
\* after an earlier challenge of the same user had been completed.
C14_Witness ==
    /\ ret = Value("new_challenge", <<1>>, 0)
    /\ ActiveChallenges(challenge, 1) # {}
    /\ \E c \in challenge : c.user_id = CastText(1) /\ c.status = GOTGUD

\* C15: new_challenge, when it returns, returns 0 exactly when the user's slot
\* is occupied, and then leaves challenge and user_challenge as they were;
\* otherwise it returns 1, exactly one challenge row is new, it is the user's
\* and GITGUD, the user's slot holds its id, and the other users' state rows
\* are unchanged.
C15_NewChallenge ==
    [][(ret'.op = "new_challenge" /\ ret'.kind = "value") =>
            LET u == ret'.args[1]
            IN  /\ ret'.val \in {0, 1}
                /\ (ret'.val = 0) <=> (SlotOf(user_challenge, u) # NULL)
                /\ (ret'.val = 0) =>
                        (challenge' = challenge /\ user_challenge' = user_challenge)
                /\ (ret'.val = 1) =>
                        /\ \E c \in challenge' :
                                /\ ~ \E b \in challenge : b.id = c.id
                                /\ challenge' = challenge \cup {c}
                                /\ c.user_id = CastText(u)
                                /\ c.status = GITGUD
                                /\ SlotOf(user_challenge', u) = Some(c.id)
                        /\ \A r \in user_challenge :
                                r.user_id # CastText(u) => r \in user_challenge'
                        /\ \A r \in user_challenge' :
                                r.user_id # CastText(u) => r \in user_challenge
      ]_vars

\* new_challenge returned 0 for a user whose slot is occupied and who has a
\* score, the sequence having moved past the ids of the rows.
C15_Witness ==
    /\ ret = Value("new_challenge", <<2>>, 0)
    /\ SlotOf(user_challenge, 2) # NULL
    /\ \E r \in user_challenge : r.user_id = CastText(2) /\ r.score > 0
    /\ \A c \in challenge : c.id < challenge_seq

ChallengeStatusOf(tbl, id) ==
    IF \E c \in tbl : c.id = id THEN Some((CHOOSE c \in tbl : c.id = id).status) ELSE NULL

\* C16: complete_challenge(user, c, t, delta) and skip_challenge(user, c,
\* status), when they return, return 1 exactly when c is GITGUD and the
\* user's slot holds c; on 1 the slot is cleared and c has its terminal status
\* (GOTGUD, with delta added to the score and 1 to num_completed, or the
\* status given to skip); on 0 challenge and user_challenge are unchanged.
C16_CompleteSkip ==
    [][(ret'.op \in {"complete_challenge", "skip_challenge"} /\ ret'.kind = "value") =>
            LET u == ret'.args[1]
                c == ret'.args[2]
                mine == {r \in user_challenge : r.user_id = CastText(u)}
            IN  /\ ret'.val \in {0, 1}
                /\ (ret'.val = 1) <=>
                        (/\ ChallengeStatusOf(challenge, c) = Some(GITGUD)
                         /\ SlotOf(user_challenge, u) = Some(c))
                /\ (ret'.val = 0) =>
                        (challenge' = challenge /\ user_challenge' = user_challenge)
                /\ (ret'.val = 1) =>
                        /\ SlotOf(user_challenge', u) = NULL
                        /\ \A x \in challenge : x.id # c => x \in challenge'
                        /\ \A r \in user_challenge : r \notin mine => r \in user_challenge'
                        /\ IF ret'.op = "complete_challenge"
                           THEN /\ ChallengeStatusOf(challenge', c) = Some(GOTGUD)
                                /\ \A r \in mine : \E s \in user_challenge' :
                                        /\ s.user_id = r.user_id
                                        /\ s.score = r.score + ret'.args[3]
                                        /\ s.num_completed = r.num_completed + 1
                           ELSE /\ ChallengeStatusOf(challenge', c) = Some(ret'.args[3])
                                /\ \A r \in mine : \E s \in user_challenge' :
                                        /\ s.user_id = r.user_id
                                        /\ s.score = r.score
                                        /\ s.num_completed = r.num_completed
      ]_vars

\* A user tried to skip another user's active challenge: the challenge is
\* GITGUD (the second statement alone would match) but the call returned 0.
C16_Witness ==
    /\ ret.op = "skip_challenge" /\ ret.kind = "value" /\ ret.val = 0
    /\ ChallengeStatusOf(challenge, ret.args[2]) = Some(GITGUD)
    /\ SlotOf(user_challenge, ret.args[1]) # Some(ret.args[2])
    /\ \E c \in challenge : c.status \in {GOTGUD, NOGUD, FORCED_NOGUD}

ReadOps ==
    {"get_duel_rating", "check_duel_withdraw", "get_rated_vc_channel", "get_vc_rating",
     "get_handle", "get_user_id"}

\* C17: a read (get_duel_rating, check_duel_withdraw, get_rated_vc_channel,
\* get_vc_rating, get_handle, get_user_id) called on a usable connection
\* returns a value or None, whether or not the row it looks for exists, and
\* leaves the connection usable.
C17_ReadsNeverRaise ==
    [][(txn = "idle" /\ ret'.op \in ReadOps) =>
            (ret'.kind \in {"value", "none"} /\ txn' = "idle")
      ]_vars

\* C18: register_duelist, when it returns, returns 1 for a user without a
\* duelist row and creates the row with rating 1500, and returns 0 for a user
\* with a row and leaves the rating as it is; no other duelist row changes.
C18_RegisterDuelist ==
    [][(ret'.op = "register_duelist" /\ ret'.kind = "value") =>
            LET u == ret'.args[1]
            IN  /\ ret'.val \in {0, 1}
                /\ (ret'.val = 1) <=> ~ IsDuelist(duelist, u)
                /\ (ret'.val = 1) =>
                        duelist' = duelist \cup {[user_id |-> u, rating |-> 1500]}
                /\ (ret'.val = 0) => duelist' = duelist
      ]_vars

\* A user whose rating has moved away from 1500 registered again and got 0.
C18_Witness ==
    /\ ret.op = "register_duelist" /\ ret.kind = "value" /\ ret.val = 0
    /\ RatingOf(duelist, ret.args[1]) \notin {NULL, Some(1500)}

UserRows(tbl, user_id) == {r \in tbl : r.user_id = CastText(user_id)}

\* C19: remove_last_ratedvc_participation(user), when it returns, returns 1
\* and deletes exactly the user's row with the largest vc_id, rated or not,
\* when the user has a row, and returns 0 and deletes nothing otherwise; the
\* rated_vcs rows are unchanged.
C19_RemoveLast ==
    [][(ret'.op = "remove_last_ratedvc_participation" /\ ret'.kind = "value") =>
            LET mine == UserRows(rated_vc_users, ret'.args[1])
            IN  /\ rated_vcs' = rated_vcs
                /\ IF mine = {}
                   THEN ret'.val = 0 /\ rated_vc_users' = rated_vc_users
                   ELSE /\ ret'.val = 1
                        /\ \E last \in mine :
                                /\ \A r \in mine : r.vc_id <= last.vc_id
                                /\ rated_vc_users' = rated_vc_users \ {last}
      ]_vars

\* The removed row was an unrated one: the user's rated row of an earlier
\* contest is still there, the roster row of contest 2 is gone.
C19_Witness ==
    /\ ret = Value("remove_last_ratedvc_participation", <<1>>, 1)
    /\ UserRows(rated_vc_users, 1) = {VcUserRow(1, 1, Some(1450))}
    /\ \E v \in rated_vcs : v.id = 2
    /\ VcUserRow(1, 2, NULL) \in rated_vc_users

SettingsTables == <<starboard, rankup, rated_vc_settings, reminder>>

GuildRows(tbl, guild_id) == {r \in tbl : r.guild_id = CastText(guild_id)}

\* C20: every settings table holds at most one row per guild, and a set for a
\* guild leaves exactly one row for it, carrying the channel id just written,
\* leaves the rows of other guilds in that table unchanged, and changes no
\* other settings table.
C20_SettingsUpsert ==
    /\ [](\A i \in 1 .. 4 : \A r1 \in SettingsTables[i], r2 \in SettingsTables[i] :
              (r1.guild_id = r2.guild_id) => (r1 = r2))
    /\ [][(ret'.op \in {"set_starboard", "set_rankup_channel", "set_rated_vc_channel",
                        "set_reminder_settings"} /\ ret'.kind = "none") =>
             LET g == ret'.args[1]
                 c == ret'.args[2]
                 i == CASE ret'.op = "set_starboard" -> 1
                        [] ret'.op = "set_rankup_channel" -> 2
                        [] ret'.op = "set_rated_vc_channel" -> 3
                        [] OTHER -> 4
             IN  /\ \E r \in SettingsTables'[i] :
                        /\ GuildRows(SettingsTables'[i], g) = {r}
                        /\ r.channel_id = CastText(c)
                 /\ SettingsTables'[i] \ GuildRows(SettingsTables'[i], g)
                        = SettingsTables[i] \ GuildRows(SettingsTables[i], g)
                 /\ \A j \in 1 .. 4 : (j # i) => (SettingsTables'[j] = SettingsTables[j])
         ]_vars

\* A guild's channel was set a second time, to a different channel, while
\* another guild has a row in the same table.
C20_Witness ==
    /\ ret = None("set_rated_vc_channel", <<7, 200>>)
    /\ GuildRows(rated_vc_settings, 7) = {ChannelRow(7, 200)}
    /\ GuildRows(rated_vc_settings, 8) = {ChannelRow(8, 100)}
    /\ GuildRows(starboard, 7) = {ChannelRow(7, 100)}

\* The duel table with the status of duel id set to s.
WithStatus(tbl, id, s) == {IF d.id = id THEN [d EXCEPT !.status = s] ELSE d : d \in tbl}

\* C23: on a usable connection cancel_duel(d, status) returns 1 and sets the
\* status of d to the given status when d is PENDING, invalidate_duel(d)
\* returns 1 and sets it to INVALID when d is ONGOING; otherwise the call
\* returns 0 and the duel table is unchanged.  Nothing but the status of d
\* changes in the duel table, and no duelist row changes.
C23_GuardedCancelInvalidate ==
    [][/\ (txn = "idle" /\ ret'.op = "cancel_duel") =>
            \A d \in DuelIdArgs, s \in CancelStatuses :
                cancel_duel(d, s) =>
                    /\ ret'.kind = "value"
                    /\ IF StatusOf(duel, d) = Some(PENDING)
                       THEN ret'.val = 1 /\ duel' = WithStatus(duel, d, s)
                       ELSE ret'.val = 0 /\ duel' = duel
                    /\ duelist' = duelist
       /\ (txn = "idle" /\ ret'.op = "invalidate_duel") =>
            \A d \in DuelIdArgs :
                invalidate_duel(d) =>
                    /\ ret'.kind = "value"
                    /\ IF StatusOf(duel, d) = Some(ONGOING)
                       THEN ret'.val = 1 /\ duel' = WithStatus(duel, d, INVALID)
                       ELSE ret'.val = 0 /\ duel' = duel
                    /\ duelist' = duelist
      ]_vars

\* invalidate_duel was refused on a COMPLETE duel that has a winner, with
\* two duels in the table and a duelist whose rating has moved.
C23_Witness ==
    /\ ret = Value("invalidate_duel", <<1>>, 0)
    /\ \E d \in duel : d.id = 1 /\ d.status = COMPLETE /\ d.winner # NULL
    /\ \E d \in duel : d.id # 1 /\ d.status = PENDING
    /\ \E r \in duelist : r.rating # DUELIST_INITIAL_RATING

\* C24: in every reachable state a duel row has a winner exactly when its
\* status is COMPLETE, and a COMPLETE row has a finish_time.
C24_WinnerOnlyAtComplete ==
    \A d \in duel :
        /\ (d.winner # NULL) <=> (d.status = COMPLETE)
        /\ (d.status = COMPLETE) => (d.finish_time # NULL)

\* One duel was completed as a draw, another was cancelled and has no winner.
C24_Witness ==
    /\ \E d \in duel : d.status = COMPLETE /\ d.winner = Some(DRAW)
                       /\ d.finish_time = Some(30)
    /\ \E d \in duel : d.status \in CancelStatuses /\ d.winner = NULL

\* C25: create_duel, cancel_duel, start_duel, invalidate_duel, a
\* complete_duel that returns 0 and a complete_duel with dtype UNOFFICIAL
\* leave the duelist table, and so every rating, unchanged.
C25_RatingsOnlyByOfficial ==
    [][(\/ ret'.op \in {"create_duel", "cancel_duel", "start_duel", "invalidate_duel"}
        \/ /\ ret'.op = "complete_duel"
           /\ ret'.kind = "value"
           /\ (ret'.val = 0 \/ ret'.args[5] = UNOFFICIAL))
            => duelist' = duelist
      ]_vars

\* An UNOFFICIAL completion between two registered duelists, called with a
\* delta of 5, went through and both ratings are where they were.
C25_Witness ==
    /\ ret = Value("complete_duel", <<1, 1, 2, 5, UNOFFICIAL>>, 1)
    /\ StatusOf(duel, 1) = Some(COMPLETE)
    /\ duelist = {[user_id |-> 1, rating |-> DUELIST_INITIAL_RATING],
                  [user_id |-> 2, rating |-> DUELIST_INITIAL_RATING]}

\* C26: an OFFICIAL complete_duel that returns 1 for a winner_id or loser_id
\* without a duelist row marks the duel COMPLETE, creates no duelist row, and
\* changes the rating of the registered party alone: the winner's by +delta,
\* the loser's by -delta.
C26_UnregisteredParty ==
    [][(/\ ret'.op = "complete_duel" /\ ret'.kind = "value" /\ ret'.val = 1
        /\ ret'.args[5] = OFFICIAL
        /\ (~ IsDuelist(duelist, ret'.args[2]) \/ ~ IsDuelist(duelist, ret'.args[3])))
            => LET d == ret'.args[1]
                   w == ret'.args[2]
                   l == ret'.args[3]
                   delta == ret'.args[4]
               IN  /\ StatusOf(duel, d) = Some(ONGOING)
                   /\ StatusOf(duel', d) = Some(COMPLETE)
                   /\ {r.user_id : r \in duelist'} = {r.user_id : r \in duelist}
                   /\ duelist' = LedgerPlus(LedgerPlus(duelist, w, delta), l, 0 - delta)
                   /\ \A r \in duelist : r.user_id \notin {w, l} => r \in duelist'
      ]_vars

\* The winner is registered and the loser is not: the duel is COMPLETE, the
\* winner has gained 5 and nobody has lost them.
C26_Witness ==
    /\ ret = Value("complete_duel", <<1, 1, 3, 5, OFFICIAL>>, 1)
    /\ StatusOf(duel, 1) = Some(COMPLETE)
    /\ duelist = {[user_id |-> 1, rating |-> DUELIST_INITIAL_RATING + 5],
                  [user_id |-> 2, rating |-> DUELIST_INITIAL_RATING]}

\* C28: create_duel on a usable connection adds exactly one duel row, PENDING,
\* with the given challenger, challengee, issue time, problem and type and
\* with null start_time, finish_time and winner, whose id is greater than
\* every id in the table before; no existing row changes; and the call
\* returns that id.
C28_CreateDuelReturnsId ==
    [][(txn = "idle" /\ ret'.op = "create_duel") =>
            \A ch \in Challenges, t \in IssueTimes, p \in Problems, ty \in DuelTypes :
                create_duel(ch[1], ch[2], t, p, ty) =>
                    \E id \in 1 .. (duel_seq + 1) :
                        /\ duel' = duel \cup {DuelRow(id, ch[1], ch[2], t, p, ty)}
                        /\ \A d \in duel : d.id < id
                        /\ ret'.kind = "value"
                        /\ ret'.val = id
      ]_vars

\* C29: in every reachable state each user's num_completed is the number of
\* that user's challenges with status GOTGUD and num_skipped the number with
\* status NOGUD or FORCED_NOGUD.
C29_CountersAgree ==
    \A r \in user_challenge :
        LET mine == {c \in challenge : c.user_id = r.user_id}
        IN  /\ r.num_completed = Cardinality({c \in mine : c.status = GOTGUD})
            /\ r.num_skipped = Cardinality({c \in mine : c.status \in {NOGUD, FORCED_NOGUD}})

\* What get_rated_vc_user_ids(v) returns on the table tbl.
RosterOf(tbl, v) == {r.user_id : r \in {x \in tbl : x.vc_id = v}}

\* C27: a create_rated_vc that returns, returns an id v for which
\* get_rated_vc_user_ids(v) gives exactly the listed users, and no
\* finish_rated_vc or update_vc_rating, whatever its arguments, changes what
\* get_rated_vc_user_ids returns for any contest.
C27_RosterFixed ==
    [][/\ (txn = "idle" /\ ret'.op = "create_rated_vc" /\ ret'.kind # "error") =>
            \A c \in ContestIds, st \in IssueTimes, ft \in FinishTimes, g \in Guilds,
               us \in Rosters :
                create_rated_vc(c, st, ft, g, us) =>
                    /\ ret'.kind = "value"
                    /\ RosterOf(rated_vc_users', ret'.val)
                            = {CastText(us[i]) : i \in 1 .. Len(us)}
       /\ (ret'.op \in {"finish_rated_vc", "update_vc_rating"}) =>
            \A v \in VcIdArgs : RosterOf(rated_vc_users', v) = RosterOf(rated_vc_users, v)
      ]_vars

\* C30: in every reachable state, for every user, the rows of get_duel_wins
\* plus the counts of get_num_duel_losses and get_num_duel_draws add up to
\* get_num_duel_completed, and every duel counted by any of the four is
\* COMPLETE.
C30_StatsConsistent ==
    \A u \in Users :
        /\ Cardinality(get_duel_wins_where(duel, u))
             + Cardinality(get_num_duel_losses_where(duel, u))
             + Cardinality(get_num_duel_draws_where(duel, u))
                = Cardinality(get_num_duel_completed_where(duel, u))
        /\ \A d \in get_duel_wins_where(duel, u) \cup get_num_duel_losses_where(duel, u)
                    \cup get_num_duel_draws_where(duel, u)
                    \cup get_num_duel_completed_where(duel, u) : d.status = COMPLETE

\* User 2 lost the first duel and drew the return match, and
\* get_num_duel_completed has just counted both.
C30_Witness ==
    /\ ret = Value("get_num_duel_completed", <<2>>, 2)
    /\ Cardinality(get_num_duel_losses_where(duel, 2)) = 1
    /\ Cardinality(get_num_duel_draws_where(duel, 2)) = 1
    /\ Cardinality(get_duel_wins_where(duel, 1)) = 1

\* The duel row of request i, once created.
RowOf(i) == {d \in duel : d.issue_time = RaceIssueTime(i)}

\* C21: a request passes its checks only when neither party has a PENDING or
\* ONGOING duel at that moment, and a duel row is added only by a request
\* that has passed its checks, whatever the table holds by then: nothing is
\* checked at creation.  So two requests whose checks both ran before either
\* create leave their common user in two PENDING duels (the witness).
C21_CheckedOnlyWhenItRan ==
    [][/\ \A i \in RaceRequests :
            (issuing[i].pc = "start" /\ issuing'[i].pc # "start") =>
                ((issuing'[i].pc = "checked") <=>
                    /\ ActiveDuels(duel, issuing[i].challenger) = {}
                    /\ ActiveDuels(duel, issuing[i].challengee) = {})
       /\ \A n \in duel' :
            (~ \E d \in duel : d.id = n.id) =>
                \E i \in RaceRequests :
                    /\ issuing[i].pc = "checked"
                    /\ n = DuelRow(duel_seq + 1, issuing[i].challenger,
                                   issuing[i].challengee, RaceIssueTime(i), n.problem,
                                   OFFICIAL)
      ]_vars

\* Both requests passed their checks on an empty table, then both created:
\* user 2, challengee of one and challenger of the other, is a party of two
\* PENDING duels.
C21_Witness ==
    /\ issuing = [i \in RaceRequests |->
                    IF i = 1 THEN Request("checked", 1, 2) ELSE Request("checked", 2, 3)]
    /\ \E d1 \in RowOf(1), d2 \in RowOf(2) :
            /\ d1.id # d2.id
            /\ {d1, d2} \subseteq ActiveDuels(duel, 2)
            /\ d1.status = PENDING /\ d2.status = PENDING

\* The call returned a non-zero count.
NonZero(r) == r.kind = "value" /\ r.val # 0

\* The status of the one duel of the table.
TheStatus(tbl) == (CHOOSE d \in tbl : TRUE).status

\* C22: of two transition calls on the same duel, one after the other,
\* exactly one returns a non-zero count and the duel ends in the status that
\* one wrote.  On a duel that was ONGOING (complete_duel, invalidate_duel):
\* after the first has returned non-zero the second returns 0 and changes
\* neither the duel nor any rating.  On a duel that was PENDING (start_duel,
\* cancel_duel, one of each): exactly one of the two returns non-zero, and
\* the duel is left ONGOING if that is start_duel, cancelled if cancel_duel.
C22_Serialized ==
    [][/\ (/\ ret.op \in {"complete_duel", "invalidate_duel"}
           /\ ret'.op \in {"complete_duel", "invalidate_duel"}
           /\ NonZero(ret))
            => /\ ret'.kind = "value" /\ ret'.val = 0
               /\ duel' = duel
               /\ duelist' = duelist
       /\ (/\ {ret.op, ret'.op} = {"start_duel", "cancel_duel"}
           /\ \/ NonZero(ret)
              \/ ret.op = "start_duel" /\ TheStatus(duel) = PENDING)
            => /\ NonZero(ret) # NonZero(ret')
               /\ LET winner == IF NonZero(ret) THEN ret.op ELSE ret'.op
                  IN  IF winner = "start_duel" THEN TheStatus(duel') = ONGOING
                      ELSE TheStatus(duel') \in CancelStatuses
      ]_vars

====
